---- MODULE Spec2Model ----
(***************************************************************************)
(* Order-book index, matching engine and event log of matchbook.           *)
(*                                                                         *)
(* The books and the event queue are fixed-layout account buffers; the     *)
(* model keeps the decoded header fields and the slot arrays.  Integers    *)
(* are scaled down: u64 and u32 are modelled with the maxima U64_MAX and   *)
(* U32_MAX, an order key is price * SeqSpace + sequence instead of         *)
(* price << 64 | sequence.                                                 *)
(***************************************************************************)
EXTENDS Integers, Sequences, FiniteSets, TLC

\* ---------------------------------------------------------------- bounds
ArenaCap == 3
EventCap == 3
MaxOrders == 4
MaxLimit == 2
IndexOrders == 3
MaxBatch == 2
MaxCalls == 3
MaxRetries == 4
U64_MAX == 65535
U32_MAX == 65535

\* ------------------------------------------------------ program constants
U8_MAX == 255
SENTINEL == 65535
BPS_DENOMINATOR == 10000
TAG_UNINIT == 0
TAG_LEAF == 2
TAG_FREE == 3
EVENT_FILL == 1
EVENT_OUT == 2

Prices == {1, 300}
Quantities == {1, 300}
\* Every order comes from its own owner with its own client order id.
OwnerOf(seq) == 100 + seq
ClientIdOf(seq) == 200 + seq
Sides == {"Bid", "Ask"}

\* Market accounts (create_market validates lot sizes > 0,
\* taker_fee_bps <= 10000 and -100 <= maker_fee_bps <= 10000).
Market(base_lot_size, quote_lot_size, taker_fee_bps, maker_fee_bps, active) ==
  [base_lot_size |-> base_lot_size, quote_lot_size |-> quote_lot_size,
   taker_fee_bps |-> taker_fee_bps, maker_fee_bps |-> maker_fee_bps,
   active |-> active]

MarketConfigs == {Market(1, 1, 100, -50, TRUE), Market(1, 1, 100, -50, FALSE)}

FeeMarkets ==
  {Market(bl, ql, tf, mf, TRUE) :
     bl \in {1, 2, 7}, ql \in {1, 2}, tf \in {0, 30, 10000},
     mf \in {-100, -30, 0, 25}}

IndexQuantities == {1}
UpdatedQuantities == {5}
FeePrices == {1, 7, 300}
FeeQuantities == {1, 5, 300}
HeadSeqs == {0, 1, U64_MAX}
CursorSeqs == {0, 1, 2, U64_MAX}

VARIABLES market, order_seq, bids, asks, event_queue, last

\* The indexer: a free-standing EventCursor, the EventProcessor (its
\* cursors per market and its metrics) and the record of the last call.
VARIABLES cursor, processor, indexed

\* The crank: the TransactionSubmitter's configuration and the progress of
\* its submit call.
VARIABLES submitter, submission

\* The crank: the CrankService and the progress of its run call.
VARIABLES service

\* The API's WebSocket server: the global connection id counter, the
\* connection tasks, and the ChannelManager's subscriptions.
VARIABLES CONNECTION_ID_COUNTER, connections, channels

\* The SDK's WebSocket client: the MatchbookWsClient, the socket it is
\* connected to with its reader task, and the calls in progress on it.
VARIABLES ws_client, ws_socket, ws_callers

\* The SDK's HTTP client: the progress of a request_with_retry call.
VARIABLES http_request

onchain == <<market, order_seq, bids, asks, event_queue, last>>
indexer == <<cursor, processor, indexed>>
crank == <<submitter, submission, service>>
api == <<CONNECTION_ID_COUNTER, connections, channels>>
sdk == <<ws_client, ws_socket, ws_callers, http_request>>
offchain == <<cursor, processor, indexed, submitter, submission, service, CONNECTION_ID_COUNTER, connections, channels, ws_client, ws_socket, ws_callers, http_request>>
vars == <<market, order_seq, bids, asks, event_queue, last, cursor, processor, indexed, submitter, submission, service, CONNECTION_ID_COUNTER, connections, channels, ws_client, ws_socket, ws_callers, http_request>>

Slots == 0 .. (ArenaCap - 1)
EventSlots == 0 .. (EventCap - 1)

Min(a, b) == IF a < b THEN a ELSE b

\* ------------------------------------------------------------ arithmetic
NoValue == [some |-> FALSE, v |-> 0]
Some(x) == [some |-> TRUE, v |-> x]

\* u64::checked_mul
checked_mul(a, b) ==
  IF a = 0 \/ b = 0 THEN Some(0)
  ELSE IF a > U64_MAX \div b THEN NoValue
  ELSE Some(a * b)

\* u64::checked_div
checked_div(a, b) == IF b = 0 THEN NoValue ELSE Some(a \div b)

\* Option::and_then
and_then_mul(o, b) == IF o.some THEN checked_mul(o.v, b) ELSE NoValue
and_then_div(o, b) == IF o.some THEN checked_div(o.v, b) ELSE NoValue

\* Option::unwrap_or
unwrap_or(o, d) == IF o.some THEN o.v ELSE d

\* u64::saturating_sub / saturating_add
saturating_sub(a, b) == IF a < b THEN 0 ELSE a - b
saturating_add(a, b, max) == IF a + b > max THEN max ELSE a + b

\* i16::unsigned_abs
unsigned_abs(x) == IF x < 0 THEN 0 - x ELSE x

\* ------------------------------------------------------------ order keys
SeqSpace == MaxOrders + 1

\* OrderId::new: price in the high part, sequence in the low part; the
\* sequence is complemented on the bid side.
OrderKey(price, seq, is_bids) ==
  price * SeqSpace + (IF is_bids THEN (SeqSpace - 1) - seq ELSE seq)

\* OrderId::price
OrderPrice(key, is_bids) == key \div SeqSpace

\* Insertion sequence carried by a key.
OrderSeq(key, is_bids) ==
  IF is_bids THEN (SeqSpace - 1) - (key % SeqSpace) ELSE key % SeqSpace

\* ------------------------------------------------------------ book arena
EmptyNode ==
  [tag |-> TAG_UNINIT, key |-> 0, owner |-> 0, quantity |-> 0,
   client_order_id |-> 0, next_free |-> 0]

\* A book account as create_market leaves it: zero-initialized, its header
\* not yet set up.
EmptyBook ==
  [initialized |-> FALSE, leaf_count |-> 0, free_list_head |-> 0, root |-> 0,
   nodes |-> [i \in Slots |-> EmptyNode]]

\* Header set-up on the first access of a book account.
init_header(book) ==
  IF book.initialized THEN book
  ELSE [book EXCEPT !.initialized = TRUE, !.free_list_head = SENTINEL,
                    !.root = SENTINEL]

\* Number of slots a scan visits: 2 * leaf_count, cut at the end of the
\* account data.
max_nodes(book) == Min(2 * book.leaf_count, ArenaCap)

NoOrder ==
  [some |-> FALSE, key |-> 0, price |-> 0, quantity |-> 0, owner |-> 0,
   client_order_id |-> 0]

\* Whether the leaf in slot i beats the best slot found so far.
is_better(book, is_bids, i, best) ==
  IF best = -1 THEN TRUE
  ELSE IF is_bids THEN book.nodes[i].key > book.nodes[best].key
  ELSE book.nodes[i].key < book.nodes[best].key

RECURSIVE scan_best(_, _, _, _)
\* The scanning loop of get_best_order from slot i on; best is the slot
\* of the best key so far, or -1.
scan_best(book, is_bids, i, best) ==
  IF i >= max_nodes(book) THEN best
  ELSE scan_best(book, is_bids, i + 1,
                 IF book.nodes[i].tag = TAG_LEAF
                    /\ is_better(book, is_bids, i, best)
                 THEN i ELSE best)

\* The order tuple get_best_order returns for the slot its scan ended on.
best_order_info(book, is_bids, best) ==
  IF best = -1 THEN NoOrder
  ELSE [some |-> TRUE,
        key |-> book.nodes[best].key,
        price |-> OrderPrice(book.nodes[best].key, is_bids),
        quantity |-> book.nodes[best].quantity,
        owner |-> book.nodes[best].owner,
        client_order_id |-> book.nodes[best].client_order_id]

get_best_order(book, is_bids) ==
  IF book.leaf_count = 0 THEN NoOrder
  ELSE IF book.root = SENTINEL THEN NoOrder
  ELSE best_order_info(book, is_bids, scan_best(book, is_bids, 0, -1))

RECURSIVE find_slot(_, _, _)
\* First slot of the scan window, from i on, holding a leaf with the key;
\* -1 if none.
find_slot(book, order_id, i) ==
  IF i >= max_nodes(book) THEN -1
  ELSE IF book.nodes[i].tag = TAG_LEAF /\ book.nodes[i].key = order_id THEN i
  ELSE find_slot(book, order_id, i + 1)

\* free_slot leaving root as it was.
free_slot_keeps_root(book, i, leaf_count) ==
  [book EXCEPT
     !.nodes[i].tag = TAG_FREE,
     !.nodes[i].next_free = book.free_list_head,
     !.free_list_head = i,
     !.leaf_count = leaf_count]

\* The writes of remove_order once the scan found the leaf in slot i.
free_slot(book, i, leaf_count) ==
  [book EXCEPT
     !.nodes[i].tag = TAG_FREE,
     !.nodes[i].next_free = book.free_list_head,
     !.free_list_head = i,
     !.leaf_count = leaf_count,
     !.root = IF leaf_count = 0 THEN SENTINEL ELSE book.root]

\* remove_at leaving leaf_count as it was.
remove_at_keeps_count(book, i) ==
  IF i = -1 THEN [status |-> "OrderNotFound", book |-> book]
  ELSE [status |-> "Ok", book |-> free_slot(book, i, book.leaf_count)]

\* remove_at moving the leaf of the highest slot into the freed one.
remove_at_compacting(book, i) ==
  IF i = -1 THEN [status |-> "OrderNotFound", book |-> book]
  ELSE LET leaves == {j \in Slots : book.nodes[j].tag = TAG_LEAF}
           top == CHOOSE j \in leaves : \A k \in leaves : k <= j
       IN [status |-> "Ok",
           book |-> [free_slot(book, top,
                               saturating_sub(book.leaf_count, 1))
                       EXCEPT !.nodes[i] =
                         IF top = i THEN @ ELSE book.nodes[top]]]

remove_at(book, i) ==
  IF i = -1 THEN [status |-> "OrderNotFound", book |-> book]
  ELSE [status |-> "Ok",
        book |-> free_slot(book, i, saturating_sub(book.leaf_count, 1))]

remove_order(book, order_id) == remove_at(book, find_slot(book, order_id, 0))

\* update_at writing the quantity of every leaf.
update_at_all(book, i, new_quantity) ==
  IF i = -1 THEN [status |-> "OrderNotFound", book |-> book]
  ELSE [status |-> "Ok",
        book |-> [book EXCEPT !.nodes =
                    [j \in Slots |->
                       IF book.nodes[j].tag = TAG_LEAF
                       THEN [book.nodes[j] EXCEPT !.quantity = new_quantity]
                       ELSE book.nodes[j]]]]

update_at(book, i, new_quantity) ==
  IF i = -1 THEN [status |-> "OrderNotFound", book |-> book]
  ELSE [status |-> "Ok",
        book |-> [book EXCEPT !.nodes[i].quantity = new_quantity]]

update_order_quantity(book, order_id, new_quantity) ==
  update_at(book, find_slot(book, order_id, 0), new_quantity)

\* Lowest slot never used so far, or -1.
first_unused(book) ==
  IF \E i \in Slots : book.nodes[i].tag = TAG_UNINIT
  THEN CHOOSE i \in Slots :
         /\ book.nodes[i].tag = TAG_UNINIT
         /\ \A j \in Slots : book.nodes[j].tag = TAG_UNINIT => i <= j
  ELSE -1

\* The writes of an insert into the chosen slot.
insert_at(book, slot, from_free, leaf) ==
  IF slot = -1 THEN [status |-> "NoFreeSlot", book |-> book]
  ELSE [status |-> "Ok",
        book |->
          [book EXCEPT
             !.leaf_count = book.leaf_count + 1,
             !.free_list_head =
               IF from_free THEN book.nodes[slot].next_free
               ELSE book.free_list_head,
             !.root = IF book.root = SENTINEL THEN slot ELSE book.root,
             !.nodes[slot] = leaf]]

\* PriceLevelIndex insert: take the head of the free list, else grow the
\* arena; NoFreeSlot when the arena is full.
insert_ready(book, leaf) ==
  insert_at(book,
            IF book.free_list_head # SENTINEL THEN book.free_list_head
            ELSE first_unused(book),
            book.free_list_head # SENTINEL,
            leaf)

insert_leaf(book, key, owner, quantity, client_order_id) ==
  insert_ready(init_header(book),
               [tag |-> TAG_LEAF, key |-> key, owner |-> owner,
                quantity |-> quantity, client_order_id |-> client_order_id,
                next_free |-> 0])

\* ------------------------------------------------------------- event log
EmptyEvent == [tag |-> 0]

EmptyQueue ==
  [head |-> 0, count |-> 0, seq_num |-> 0,
   events |-> [i \in EventSlots |-> EmptyEvent]]

\* FillEvent::new
FillEvent(taker_side, maker, maker_order_id, maker_client_order_id, taker, taker_order_id, taker_client_order_id, price, quantity, taker_fee, maker_rebate) ==
  [tag |-> EVENT_FILL, taker_side |-> taker_side, maker |-> maker,
   maker_order_id |-> maker_order_id,
   maker_client_order_id |-> maker_client_order_id, taker |-> taker,
   taker_order_id |-> taker_order_id,
   taker_client_order_id |-> taker_client_order_id, price |-> price,
   quantity |-> quantity, taker_fee |-> taker_fee,
   maker_rebate |-> maker_rebate]

\* OutEvent::new
OutEvent(side, owner, order_id, client_order_id, base_released, quote_released, reason) ==
  [tag |-> EVENT_OUT, side |-> side, owner |-> owner, order_id |-> order_id,
   client_order_id |-> client_order_id, base_released |-> base_released,
   quote_released |-> quote_released, reason |-> reason]

\* push_fill_event refusing the push only above capacity.
push_fill_event_off_by_one(queue, event) ==
  LET capacity == EventCap
      tail == (queue.head + queue.count) % capacity
  IN IF capacity = 0 \/ queue.count > capacity
     THEN [status |-> "EventQueueFull", queue |-> queue]
     ELSE [status |-> "Ok",
           queue |->
             [head |-> queue.head,
              count |-> saturating_add(queue.count, 1, U32_MAX),
              seq_num |-> saturating_add(queue.seq_num, 1, U64_MAX),
              events |-> [queue.events EXCEPT ![tail] = event]]]

\* push_fill_event writing at head instead of tail.
push_fill_event_at_head(queue, event) ==
  LET capacity == EventCap
  IN IF capacity = 0 \/ queue.count >= capacity
     THEN [status |-> "EventQueueFull", queue |-> queue]
     ELSE [status |-> "Ok",
           queue |->
             [head |-> queue.head,
              count |-> saturating_add(queue.count, 1, U32_MAX),
              seq_num |-> saturating_add(queue.seq_num, 1, U64_MAX),
              events |-> [queue.events EXCEPT ![queue.head] = event]]]

push_fill_event(queue, event) ==
  LET capacity == EventCap
      tail == (queue.head + queue.count) % capacity
  IN IF capacity = 0 \/ queue.count >= capacity
     THEN [status |-> "EventQueueFull", queue |-> queue]
     ELSE [status |-> "Ok",
           queue |->
             [head |-> queue.head,
              count |-> saturating_add(queue.count, 1, U32_MAX),
              seq_num |-> saturating_add(queue.seq_num, 1, U64_MAX),
              events |-> [queue.events EXCEPT ![tail] = event]]]

\* push_out_event leaving seq_num as it was.
push_out_event_keeps_seq(queue, event) ==
  LET capacity == EventCap
      tail == (queue.head + queue.count) % capacity
  IN IF capacity = 0 \/ queue.count >= capacity
     THEN [status |-> "EventQueueFull", queue |-> queue]
     ELSE [status |-> "Ok",
           queue |->
             [head |-> queue.head,
              count |-> saturating_add(queue.count, 1, U32_MAX),
              seq_num |-> queue.seq_num,
              events |-> [queue.events EXCEPT ![tail] = event]]]

\* push_out_event writing one slot before the tail.
push_out_event_before_tail(queue, event) ==
  LET capacity == EventCap
      tail == (queue.head + queue.count + capacity - 1) % capacity
  IN IF capacity = 0 \/ queue.count >= capacity
     THEN [status |-> "EventQueueFull", queue |-> queue]
     ELSE [status |-> "Ok",
           queue |->
             [head |-> queue.head,
              count |-> saturating_add(queue.count, 1, U32_MAX),
              seq_num |-> saturating_add(queue.seq_num, 1, U64_MAX),
              events |-> [queue.events EXCEPT ![tail] = event]]]

push_out_event(queue, event) ==
  LET capacity == EventCap
      tail == (queue.head + queue.count) % capacity
  IN IF capacity = 0 \/ queue.count >= capacity
     THEN [status |-> "EventQueueFull", queue |-> queue]
     ELSE [status |-> "Ok",
           queue |->
             [head |-> queue.head,
              count |-> saturating_add(queue.count, 1, U32_MAX),
              seq_num |-> saturating_add(queue.seq_num, 1, U64_MAX),
              events |-> [queue.events EXCEPT ![tail] = event]]]

\* EventLog consume: drops the n oldest events by advancing head.
consume_events(queue, n) ==
  [queue EXCEPT !.head = (queue.head + n) % EventCap,
                !.count = queue.count - n]

\* ------------------------------------------------------- matching engine
NoMatch ==
  [some |-> FALSE, price |-> 0, quantity |-> 0,
   bid_order_id |-> 0, bid_owner |-> 0, bid_client_order_id |-> 0,
   bid_remaining |-> 0,
   ask_order_id |-> 0, ask_owner |-> 0, ask_client_order_id |-> 0,
   ask_remaining |-> 0]

\* cross without the test that the prices cross.
cross_any_price(best_bid, best_ask, match_quantity) ==
  IF ~best_bid.some THEN NoMatch
  ELSE IF ~best_ask.some THEN NoMatch
  ELSE [some |-> TRUE,
        price |-> best_ask.price,
        quantity |-> match_quantity,
        bid_order_id |-> best_bid.key,
        bid_owner |-> best_bid.owner,
        bid_client_order_id |-> best_bid.client_order_id,
        bid_remaining |-> saturating_sub(best_bid.quantity, match_quantity),
        ask_order_id |-> best_ask.key,
        ask_owner |-> best_ask.owner,
        ask_client_order_id |-> best_ask.client_order_id,
        ask_remaining |-> saturating_sub(best_ask.quantity, match_quantity)]

\* find_match once both best orders are read.
cross(best_bid, best_ask, match_quantity) ==
  IF ~best_bid.some THEN NoMatch
  ELSE IF ~best_ask.some THEN NoMatch
  ELSE IF best_bid.price < best_ask.price THEN NoMatch
  ELSE [some |-> TRUE,
        price |-> best_ask.price,
        quantity |-> match_quantity,
        bid_order_id |-> best_bid.key,
        bid_owner |-> best_bid.owner,
        bid_client_order_id |-> best_bid.client_order_id,
        bid_remaining |-> saturating_sub(best_bid.quantity, match_quantity),
        ask_order_id |-> best_ask.key,
        ask_owner |-> best_ask.owner,
        ask_client_order_id |-> best_ask.client_order_id,
        ask_remaining |-> saturating_sub(best_ask.quantity, match_quantity)]

\* best_pair matching the larger of the two quantities.
best_pair_max(best_bid, best_ask) ==
  cross(best_bid, best_ask,
        IF best_bid.quantity > best_ask.quantity THEN best_bid.quantity
        ELSE best_ask.quantity)

\* best_pair matching one unit less than the smaller quantity.
best_pair_short(best_bid, best_ask) ==
  cross(best_bid, best_ask,
        saturating_sub(Min(best_bid.quantity, best_ask.quantity), 1))

best_pair(best_bid, best_ask) ==
  cross(best_bid, best_ask, Min(best_bid.quantity, best_ask.quantity))

find_match(b, a, base_lot_size) ==
  best_pair(get_best_order(b, TRUE), get_best_order(a, FALSE))

\* notional = quantity * price * quote_lot_size / base_lot_size, 0 when a
\* checked operation fails.
calc_notional(mkt, result) ==
  unwrap_or(
    and_then_div(
      and_then_mul(checked_mul(result.quantity, result.price),
                   mkt.quote_lot_size),
      mkt.base_lot_size),
    0)

calc_taker_fee(mkt, notional) ==
  unwrap_or(
    and_then_div(checked_mul(notional, mkt.taker_fee_bps), BPS_DENOMINATOR),
    0)

calc_maker_rebate(mkt, notional) ==
  IF mkt.maker_fee_bps < 0
  THEN unwrap_or(
         and_then_div(checked_mul(notional, unsigned_abs(mkt.maker_fee_bps)),
                      BPS_DENOMINATOR),
         0)
  ELSE 0

\* The fill event of a match: the bid in the maker fields, the ask in the
\* taker fields, taker side Ask.
fill_event_of(mkt, result, notional) ==
  FillEvent("Ask", result.bid_owner, result.bid_order_id,
            result.bid_client_order_id, result.ask_owner,
            result.ask_order_id, result.ask_client_order_id,
            result.price, result.quantity, calc_taker_fee(mkt, notional),
            calc_maker_rebate(mkt, notional))

\* A fully filled side after remove_order: the result of the Out push is
\* discarded.
removed(rm, out, book, queue) ==
  IF rm.status # "Ok"
  THEN [status |-> rm.status, book |-> book, queue |-> queue, out |-> "none"]
  ELSE [status |-> "Ok", book |-> rm.book, queue |-> out.queue,
        out |-> out.status]

updated(up, queue) ==
  [status |-> up.status, book |-> up.book, queue |-> queue, out |-> "none"]

\* Settlement of one side of a match: remove the order and push its Out
\* event, or write the remaining quantity.
settle_side(book, queue, side, order_id, owner, client_order_id, remaining) ==
  IF remaining = 0
  THEN removed(remove_order(book, order_id),
               push_out_event(
                 queue,
                 OutEvent(side, owner, order_id, client_order_id, 0, 0,
                          "Filled")),
               book, queue)
  ELSE updated(update_order_quantity(book, order_id, remaining), queue)

\* settled leaving match_count as it was.
settled_uncounted(mkt, s, result, bid, ask) ==
  IF ask.status # "Ok" THEN [s EXCEPT !.status = ask.status]
  ELSE [status |-> "Ok", bids |-> bid.book, asks |-> ask.book,
        queue |-> ask.queue,
        match_count |-> s.match_count,
        steps |->
          Append(s.steps,
                 [result |-> result,
                  bids_before |-> s.bids, asks_before |-> s.asks,
                  queue_before |-> s.queue,
                  bids_after |-> bid.book, asks_after |-> ask.book,
                  queue_after |-> ask.queue,
                  bid_out |-> bid.out, ask_out |-> ask.out])]

\* End of an iteration: both sides settled.
settled(mkt, s, result, bid, ask) ==
  IF ask.status # "Ok" THEN [s EXCEPT !.status = ask.status]
  ELSE [status |-> "Ok", bids |-> bid.book, asks |-> ask.book,
        queue |-> ask.queue,
        match_count |-> saturating_add(s.match_count, 1, U8_MAX),
        steps |->
          Append(s.steps,
                 [result |-> result,
                  bids_before |-> s.bids, asks_before |-> s.asks,
                  queue_before |-> s.queue,
                  bids_after |-> bid.book, asks_after |-> ask.book,
                  queue_after |-> ask.queue,
                  bid_out |-> bid.out, ask_out |-> ask.out])]

settle_ask(mkt, s, result, bid) ==
  IF bid.status # "Ok" THEN [s EXCEPT !.status = bid.status]
  ELSE settled(mkt, s, result, bid,
               settle_side(s.asks, bid.queue, "Ask", result.ask_order_id,
                           result.ask_owner, result.ask_client_order_id,
                           result.ask_remaining))

settle_bid(mkt, s, result, fill) ==
  IF fill.status # "Ok" THEN [s EXCEPT !.status = fill.status]
  ELSE settle_ask(mkt, s, result,
                  settle_side(s.bids, fill.queue, "Bid", result.bid_order_id,
                              result.bid_owner, result.bid_client_order_id,
                              result.bid_remaining))

execute_match(mkt, s, result) ==
  IF ~result.some THEN [s EXCEPT !.status = "Break"]
  ELSE settle_bid(mkt, s, result,
                  push_fill_event(
                    s.queue,
                    fill_event_of(mkt, result, calc_notional(mkt, result))))

\* One iteration of the loop of handler, from the working state s.
match_step(mkt, s) ==
  execute_match(mkt, s, find_match(s.bids, s.asks, mkt.base_lot_size))

RECURSIVE match_loop(_, _, _)
\* The iteration ended in t with n iterations left, itself included.
loop_next(mkt, t, n) ==
  IF t.status = "Ok" THEN match_loop(mkt, t, n - 1)
  ELSE IF t.status = "Break" THEN [t EXCEPT !.status = "Ok"]
  ELSE t

\* for _ in 0..limit: n iterations left.
match_loop(mkt, s, n) ==
  IF n = 0 THEN s ELSE loop_next(mkt, match_step(mkt, s), n)

\* handler without the test that the market is active.
handler_any_status(mkt, b, a, queue, limit) ==
  IF ~(limit > 0)
  THEN [status |-> "InvalidQuantity", bids |-> b, asks |-> a,
        queue |-> queue, match_count |-> 0, steps |-> <<>>]
  ELSE match_loop(mkt,
                  [status |-> "Ok", bids |-> b, asks |-> a, queue |-> queue,
                   match_count |-> 0, steps |-> <<>>],
                  limit)

\* handler: Ok with the match count and the new account data, or the error.
handler(mkt, b, a, queue, limit) ==
  IF ~(limit > 0)
  THEN [status |-> "InvalidQuantity", bids |-> b, asks |-> a,
        queue |-> queue, match_count |-> 0, steps |-> <<>>]
  ELSE IF ~mkt.active
  THEN [status |-> "MarketNotActive", bids |-> b, asks |-> a,
        queue |-> queue, match_count |-> 0, steps |-> <<>>]
  ELSE match_loop(mkt,
                  [status |-> "Ok", bids |-> b, asks |-> a, queue |-> queue,
                   match_count |-> 0, steps |-> <<>>],
                  limit)

\* ---------------------------------------------------------------- indexer
EventTypes == {"Fill", "Out"}
MarketKeys == {1, 2}
SlotNumbers == {100}

\* EventCursor::new
EventCursor(head_seq_num) ==
  [head_seq_num |-> head_seq_num, last_processed |-> 0, events_processed |-> 0]

with_last_processed(head_seq_num, last_processed) ==
  [head_seq_num |-> head_seq_num, last_processed |-> last_processed,
   events_processed |-> 0]

is_processed(c, seq_num) == seq_num <= c.last_processed

should_process(c, seq_num) == seq_num > c.last_processed

\* mark_processed advancing last_processed whatever the sequence number.
mark_processed_any(c, seq_num) ==
  [c EXCEPT !.last_processed = seq_num,
            !.events_processed = saturating_add(c.events_processed, 1, U64_MAX)]

mark_processed(c, seq_num) ==
  IF seq_num > c.last_processed
  THEN [c EXCEPT !.last_processed = seq_num,
                 !.events_processed =
                   saturating_add(c.events_processed, 1, U64_MAX)]
  ELSE c

update_head(c, head_seq_num) == [c EXCEPT !.head_seq_num = head_seq_num]

\* pending_count with a wrapping subtraction.
pending_count_wrapping(c) ==
  (c.head_seq_num - c.last_processed) % (U64_MAX + 1)

pending_count(c) == saturating_sub(c.head_seq_num, c.last_processed)

has_pending(c) == c.head_seq_num > c.last_processed

reset(c) ==
  [c EXCEPT !.head_seq_num = 0, !.last_processed = 0, !.events_processed = 0]

\* EventMetrics::new; the processing time is left out.
EventMetrics ==
  [events_processed |-> 0, fills_processed |-> 0, outs_processed |-> 0,
   events_skipped |-> 0, errors |-> 0]

\* AtomicU64::fetch_add wraps around.
fetch_add(a, b) == (a + b) % (U64_MAX + 1)

record_batch(m, fills, outs, skipped) ==
  [m EXCEPT !.events_processed = fetch_add(m.events_processed, fills + outs),
            !.fills_processed = fetch_add(m.fills_processed, fills),
            !.outs_processed = fetch_add(m.outs_processed, outs),
            !.events_skipped = fetch_add(m.events_skipped, skipped)]

record_skipped(m) ==
  [m EXCEPT !.events_skipped = fetch_add(m.events_skipped, 1)]

\* EventProcessor::new: no cursor yet.
EventProcessor == [cursors |-> <<>>, metrics |-> EventMetrics]

\* ProcessingResult::empty
empty ==
  [events_processed |-> 0, fills |-> 0, outs |-> 0, skipped |-> 0,
   processed_fills |-> <<>>, processed_outs |-> <<>>, order_updates |-> <<>>]

\* The records process_fill_event and process_out_event build; the
\* placeholder fields and the timestamp are left out.
ProcessedFill(market_key, seq_num, slot) ==
  [market |-> market_key, slot |-> slot, seq_num |-> seq_num]

ProcessedOut(market_key, seq_num, slot) ==
  [market |-> market_key, reason |-> "Cancelled", slot |-> slot,
   seq_num |-> seq_num]

OrderUpdate(kind, market_key, seq_num) ==
  [kind |-> kind, market |-> market_key, seq_num |-> seq_num]

\* The skip branch of the loop of process_events; w is the working state
\* [last_processed, result, metrics].
skip_event(w) ==
  [w EXCEPT !.result.skipped = w.result.skipped + 1,
            !.metrics = record_skipped(w.metrics)]

process_fill_event(w, market_key, seq_num, slot) ==
  [w EXCEPT
     !.result.processed_fills =
       Append(w.result.processed_fills,
              ProcessedFill(market_key, seq_num, slot)),
     !.result.order_updates =
       Append(w.result.order_updates,
              OrderUpdate("Filled", market_key, seq_num)),
     !.result.fills = w.result.fills + 1,
     !.last_processed = seq_num,
     !.result.events_processed = w.result.events_processed + 1]

process_out_event(w, market_key, seq_num, slot) ==
  [w EXCEPT
     !.result.processed_outs =
       Append(w.result.processed_outs,
              ProcessedOut(market_key, seq_num, slot)),
     !.result.order_updates =
       Append(w.result.order_updates,
              OrderUpdate("Cancelled", market_key, seq_num)),
     !.result.outs = w.result.outs + 1,
     !.last_processed = seq_num,
     !.result.events_processed = w.result.events_processed + 1]

\* process_event that never skips.
process_event_always(w, market_key, event_type, seq_num, slot) ==
  IF event_type = "Fill"
  THEN process_fill_event(w, market_key, seq_num, slot)
  ELSE process_out_event(w, market_key, seq_num, slot)

\* The body of the loop of process_events for one event.
process_event(w, market_key, event_type, seq_num, slot) ==
  IF w.last_processed > 0 /\ seq_num <= w.last_processed THEN skip_event(w)
  ELSE IF event_type = "Fill"
  THEN process_fill_event(w, market_key, seq_num, slot)
  ELSE process_out_event(w, market_key, seq_num, slot)

RECURSIVE process_loop(_, _, _, _, _, _)
\* for (i, event) in events.iter().enumerate(), from index i on.
process_loop(w, market_key, events, head_seq_num, slot, i) ==
  IF i >= Len(events) THEN w
  ELSE process_loop(
         process_event(w, market_key, events[i + 1],
                       saturating_add(head_seq_num, i, U64_MAX), slot),
         market_key, events, head_seq_num, slot, i + 1)

\* cursors.entry(market).or_insert_with(new), then update_head.
entered(cursors, market_key, head_seq_num) ==
  [m \in DOMAIN cursors \cup {market_key} |->
     IF m # market_key THEN cursors[m]
     ELSE IF m \in DOMAIN cursors THEN update_head(cursors[m], head_seq_num)
     ELSE update_head(EventCursor(head_seq_num), head_seq_num)]

\* The end of process_events: the cursor and the batch metrics are
\* written from the working state.
finished(cursors, market_key, w) ==
  [processor |->
     [cursors |->
        [cursors EXCEPT
           ![market_key].last_processed = w.last_processed,
           ![market_key].events_processed =
             saturating_add(cursors[market_key].events_processed,
                            w.result.events_processed, U64_MAX)],
      metrics |->
        record_batch(w.metrics, w.result.fills, w.result.outs,
                     w.result.skipped)],
   result |-> w.result]

looped(cursors, metrics, market_key, events, head_seq_num, slot) ==
  finished(cursors, market_key,
           process_loop([last_processed |-> cursors[market_key].last_processed,
                         result |-> empty, metrics |-> metrics],
                        market_key, events, head_seq_num, slot, 0))

process_events(p, market_key, events, head_seq_num, slot) ==
  looped(entered(p.cursors, market_key, head_seq_num), p.metrics,
         market_key, events, head_seq_num, slot)

\* reset_cursor resetting the cursor of every tracked market.
reset_cursor_all(p, market_key) ==
  IF market_key \in DOMAIN p.cursors
  THEN [p EXCEPT !.cursors = [m \in DOMAIN p.cursors |-> reset(p.cursors[m])]]
  ELSE p

reset_cursor(p, market_key) ==
  IF market_key \in DOMAIN p.cursors
  THEN [p EXCEPT !.cursors[market_key] = reset(p.cursors[market_key])]
  ELSE p

remove_market(p, market_key) ==
  [p EXCEPT !.cursors = [m \in DOMAIN p.cursors \ {market_key} |->
                           p.cursors[m]]]

clear(p) == [p EXCEPT !.cursors = <<>>]

\* Record of the last call on the indexer: the call, its arguments, the
\* objects it started from and what it returned; calls counts the batches.
Call(op, market_key, events, seq_num, c, p, result, calls) ==
  [op |-> op, market |-> market_key, events |-> events, seq_num |-> seq_num,
   cursor_before |-> c, processor_before |-> p, result |-> result,
   calls |-> calls]

NoCall == Call("none", 0, <<>>, 0, EventCursor(0), EventProcessor, empty, 0)

IndexerIdle ==
  /\ cursor = EventCursor(0)
  /\ processor = EventProcessor
  /\ indexed = NoCall

\* ------------------------------------------------------------------ crank
\* A backoff multiplier (f64) as a fraction.
Multiplier(num, den) == [num |-> num, den |-> den]

SubmitterConfig(max_retries, initial_backoff_ms, backoff_multiplier, max_backoff_ms) ==
  [max_retries |-> max_retries, initial_backoff_ms |-> initial_backoff_ms,
   backoff_multiplier |-> backoff_multiplier,
   max_backoff_ms |-> max_backoff_ms]

\* SubmitterConfig::default
DefaultSubmitterConfig == SubmitterConfig(3, 100, Multiplier(2, 1), 10000)

Multipliers ==
  {Multiplier(1, 1), Multiplier(3, 2), Multiplier(2, 1), Multiplier(10, 1)}

SubmitterConfigs ==
  {SubmitterConfig(r, i, m, b) :
     r \in 0 .. MaxRetries, i \in {1, 100, 1000}, m \in Multipliers,
     b \in {50, 5000, 10000}}

RECURSIVE powi(_, _)
\* f64::powi on an integer base.
powi(x, n) == IF n = 0 THEN 1 ELSE x * powi(x, n - 1)

\* `as u64` of a non-negative f64 product x * num / den: truncates, and
\* saturates at u64::MAX.
as_u64(x, den) == Min(x \div den, U64_MAX)

calculate_backoff(config, retry) ==
  Min(as_u64(config.initial_backoff_ms
               * powi(config.backoff_multiplier.num, retry),
             powi(config.backoff_multiplier.den, retry)),
      config.max_backoff_ms)

\* The backoff of submit after one more sleep.
next_backoff(config, backoff) ==
  Min(as_u64(backoff * config.backoff_multiplier.num,
             config.backoff_multiplier.den),
      config.max_backoff_ms)

NoResult == [kind |-> "None", error |-> "", retries |-> 0]

\* Progress of a submit call: where it waits, its locals, what it
\* returned, and the attempts made and delays slept so far.
Submission(pc, retries, backoff, attempts, slept, result) ==
  [pc |-> pc, retries |-> retries, backoff |-> backoff,
   attempts |-> attempts, slept |-> slept, result |-> result]

Returned(s, kind, error, retries) ==
  [s EXCEPT !.pc = "done", !.retries = retries,
            !.result = [kind |-> kind, error |-> error, retries |-> retries]]

\* The head of the while loop of submit: the next attempt, or Failed.
loop_head(config, s) ==
  IF s.retries < config.max_retries
  THEN [s EXCEPT !.pc = "try_submit", !.attempts = s.attempts + 1]
  ELSE Returned(s, "Failed", "max retries exceeded", s.retries)

\* submit up to its first await.
submit(config) ==
  loop_head(config,
            Submission("start", 0, config.initial_backoff_ms, 0, <<>>,
                       NoResult))

\* try_submit_returned failing only above max_retries.
try_submit_returned_late(config, s, outcome) ==
  IF outcome = "Ok" THEN [s EXCEPT !.pc = "wait_for_confirmation"]
  ELSE IF s.retries + 1 > config.max_retries
  THEN Returned(s, "Failed", "rpc error", s.retries + 1)
  ELSE [s EXCEPT !.pc = "sleep", !.retries = s.retries + 1]

\* submit after try_submit returned: Ok goes on to the confirmation, Err
\* counts a retry and returns Failed or sleeps.
try_submit_returned(config, s, outcome) ==
  IF outcome = "Ok" THEN [s EXCEPT !.pc = "wait_for_confirmation"]
  ELSE IF s.retries + 1 >= config.max_retries
  THEN Returned(s, "Failed", "rpc error", s.retries + 1)
  ELSE [s EXCEPT !.pc = "sleep", !.retries = s.retries + 1]

\* submit after wait_for_confirmation returned.
confirmation_returned(config, s, outcome) ==
  IF outcome = "Ok" THEN Returned(s, "Confirmed", "", s.retries)
  ELSE Returned(s, "Dropped", "", s.retries)

\* submit after the sleep: the backoff grows, the loop goes round.
sleep_returned(config, s) ==
  loop_head(config,
            [s EXCEPT !.slept = Append(s.slept, s.backoff),
                      !.backoff = next_backoff(config, s.backoff)])

\* A price level of a book snapshot.
PriceLevel(price, quantity) == [price |-> price, quantity |-> quantity]

\* BookUpdate::Snapshot: the levels of each side, best first.
Snapshot(snapshot_bids, snapshot_asks) ==
  [bids |-> snapshot_bids, asks |-> snapshot_asks]

\* No snapshot: the book builder does not know the market.
NoSnapshot == [bids |-> <<>>, asks |-> <<>>, missing |-> TRUE]

I64_MAX == (U64_MAX - 1) \div 2
I64_MIN == -I64_MAX - 1

\* `x as i64` of a u64: the same bits, read as two's complement.
as_i64(x) == IF x > I64_MAX THEN x - (U64_MAX + 1) ELSE x

\* i64::saturating_sub
saturating_sub_i64(a, b) ==
  IF a - b > I64_MAX THEN I64_MAX
  ELSE IF a - b < I64_MIN THEN I64_MIN
  ELSE a - b

CrossInfo(market_key, best_bid, best_ask, estimated_matches, matchable_quantity) ==
  [market |-> market_key, best_bid |-> best_bid, best_ask |-> best_ask,
   estimated_matches |-> estimated_matches,
   matchable_quantity |-> matchable_quantity]

\* CrossInfo::spread
spread(info) ==
  saturating_sub_i64(as_i64(info.best_ask), as_i64(info.best_bid))

\* CrossInfo::is_crossed
is_crossed(info) == info.best_bid >= info.best_ask

RECURSIVE estimate_pairs(_, _, _, _, _)
\* The nested loops of estimate_matches over bids[i], asks[j].
estimate_pairs(snapshot_bids, snapshot_asks, i, j, acc) ==
  IF i > Len(snapshot_bids) THEN acc
  ELSE IF j > Len(snapshot_asks)
  THEN estimate_pairs(snapshot_bids, snapshot_asks, i + 1, 1, acc)
  ELSE IF snapshot_bids[i].price >= snapshot_asks[j].price
  THEN estimate_pairs(snapshot_bids, snapshot_asks, i, j + 1,
         [matches |-> Min(acc.matches + 1, U32_MAX),
          quantity |-> Min(acc.quantity
                             + Min(snapshot_bids[i].quantity,
                                   snapshot_asks[j].quantity),
                           U64_MAX)])
  ELSE estimate_pairs(snapshot_bids, snapshot_asks, i, j + 1, acc)

estimate_matches(snapshot_bids, snapshot_asks) ==
  estimate_pairs(snapshot_bids, snapshot_asks, 1, 1,
                 [matches |-> 0, quantity |-> 0])

\* detect_cross: the detected crosses of one market, none or one.
detect_cross(market_key, snapshot) ==
  IF "missing" \in DOMAIN snapshot THEN <<>>
  ELSE IF snapshot.bids = <<>> \/ snapshot.asks = <<>> THEN <<>>
  ELSE IF snapshot.bids[1].price >= snapshot.asks[1].price
  THEN LET e == estimate_matches(snapshot.bids, snapshot.asks)
       IN  <<CrossInfo(market_key, snapshot.bids[1].price,
                       snapshot.asks[1].price, e.matches, e.quantity)>>
  ELSE <<>>

\* CrankConfig, the fields run reads.
CrankConfig(min_priority_fee, max_priority_fee, max_matches_per_tx, enable_profitability_check, min_profit_threshold) ==
  [min_priority_fee |-> min_priority_fee,
   max_priority_fee |-> max_priority_fee,
   max_matches_per_tx |-> max_matches_per_tx,
   enable_profitability_check |-> enable_profitability_check,
   min_profit_threshold |-> min_profit_threshold]

\* CrankConfig::default, fees in units that fit the scaled u64.
DefaultCrankConfig == CrankConfig(1000, 10000, 10, TRUE, 5000)

calculate_priority_fee(config, info) ==
  LET per_match == (config.max_priority_fee - config.min_priority_fee)
                     \div (IF config.max_matches_per_tx > 1
                           THEN config.max_matches_per_tx ELSE 1)
  IN  Min(Min(config.min_priority_fee
                + Min(per_match * info.estimated_matches, U64_MAX),
              U64_MAX),
          config.max_priority_fee)

is_profitable(config, info, priority_fee) ==
  info.matchable_quantity \div 10000
    > Min(Min(5000 + priority_fee, U64_MAX) + config.min_profit_threshold,
          U64_MAX)

\* The CrankService: its running flag, where its run call stands, the
\* snapshot and crosses of the poll cycle in progress, the number of
\* transactions the cycle has submitted, and whether stop() was called
\* since run() was.
Service(config, running, pc, snapshot, crosses, submitted, stop_requested) ==
  [config |-> config, running |-> running, pc |-> pc,
   snapshot |-> snapshot, crosses |-> crosses, submitted |-> submitted,
   stop_requested |-> stop_requested]

\* CrankService::new
NewService(config) ==
  Service(config, FALSE, "idle", NoSnapshot, <<>>, 0, FALSE)

\* CrankService::is_running
is_running(s) == s.running

\* CrankService::stop
stop(s) ==
  [s EXCEPT !.running = FALSE, !.stop_requested = s.pc # "idle"]

\* run, entered: the running flag is set.
run_started(s) == [s EXCEPT !.running = TRUE, !.pc = "test"]

\* The loop test of run: a new poll cycle, or the return.
loop_test(s) ==
  IF is_running(s) THEN [s EXCEPT !.pc = "detect", !.submitted = 0]
  ELSE [s EXCEPT !.pc = "returned"]

\* The body of the for loop up to its await: the crosses that are not
\* worth a transaction are skipped.
for_crosses(s, crosses) ==
  LET worth == SelectSeq(crosses, LAMBDA info :
                 ~(s.config.enable_profitability_check
                   /\ ~is_profitable(s.config, info,
                         calculate_priority_fee(s.config, info))))
  IN  IF worth = <<>> THEN [s EXCEPT !.pc = "sleep", !.crosses = <<>>]
      ELSE [s EXCEPT !.pc = "submit", !.crosses = worth]

\* run after detect_crosses returned.
crosses_detected(s, snapshot) ==
  for_crosses([s EXCEPT !.snapshot = snapshot],
              detect_cross(1, snapshot))

\* run after submit returned for the first of the remaining crosses.
submit_returned(s) ==
  IF Len(s.crosses) > 1
  THEN [s EXCEPT !.crosses = Tail(s.crosses),
                 !.submitted = s.submitted + 1]
  ELSE [s EXCEPT !.pc = "sleep", !.crosses = <<>>,
                 !.submitted = s.submitted + 1]

\* run after the poll interval's sleep.
interval_elapsed(s) == [s EXCEPT !.pc = "test"]

ServiceIdle == service = NewService(DefaultCrankConfig)

CrankIdle ==
  /\ submitter = DefaultSubmitterConfig
  /\ submission = Submission("idle", 0, 0, 0, <<>>, NoResult)
  /\ ServiceIdle

\* -------------------------------------------------------------- api (ws)
\* Channel: Book { market }, Trades { market } or Orders { owner }.
Channel(type, address) == [type |-> type, address |-> address]

\* A channel string "type:address"; address 0 stands for one that is not
\* the base58 of 32 bytes.
ChannelStr(type, address) == [type |-> type, address |-> address]

ChannelTypes == {"book", "trades", "orders"}

\* Channel::parse, an Option as a sequence of length 0 or 1.
parse(channel_str) ==
  IF channel_str.address = 0 THEN <<>>
  ELSE IF channel_str.type \in ChannelTypes
  THEN <<Channel(channel_str.type, channel_str.address)>>
  ELSE <<>>

\* Channel::requires_auth
requires_auth(channel) == channel.type = "orders"

\* ServerMessage
subscribed(channel_str) == [type |-> "subscribed", channel |-> channel_str]
unsubscribed(channel_str) == [type |-> "unsubscribed", channel |-> channel_str]
snapshot_message(channel_str) == [type |-> "snapshot", channel |-> channel_str]
error_message(code, message) == [type |-> "error", code |-> code, message |-> message]
pong == [type |-> "pong"]

\* next_connection_id returning the counter and leaving it.
next_connection_id_stuck(counter) ==
  [id |-> counter, counter |-> counter]

\* next_connection_id: fetch_add(1) on the global counter.
next_connection_id(counter) ==
  [id |-> counter, counter |-> (counter + 1) % (U64_MAX + 1)]

NoRequest == [type |-> "none"]

\* A Connection with the state of its handle_connection task: the await it
\* is at, the request being handled, that request's outcome and the
\* messages passed to send for it.
Connection(id) ==
  [id |-> id, subscriptions |-> {}, authenticated |-> FALSE, owner |-> 0,
   pc |-> "receive", request |-> NoRequest, result |-> "", sent |-> <<>>]

\* Connection::is_subscribed
is_subscribed(c, channel) == channel \in c.subscriptions

\* Connection::can_subscribe allowing everything.
can_subscribe_any(c, channel) == TRUE

\* Connection::can_subscribe; owner 0 is None.
can_subscribe(c, channel) ==
  IF requires_auth(channel)
  THEN IF ~c.authenticated THEN FALSE
       ELSE IF channel.type = "orders"
       THEN c.owner # 0 /\ c.owner = channel.address
       ELSE TRUE
  ELSE TRUE

\* Connection::send
send(c, message) == [c EXCEPT !.sent = Append(c.sent, message)]

\* handle_text_message returned Err(e): handle_connection sends the error.
rejected(c, e) ==
  [send(c, error_message("ERROR", e)) EXCEPT !.pc = "receive", !.result = e]

\* The handler returned Ok.
handled(c) == [c EXCEPT !.pc = "receive", !.result = "Ok"]

\* handle_subscribe that registers what it is asked to.
subscribe_requested_unchecked(c, channel_str, token) ==
  LET channel == parse(channel_str)
  IN  IF channel = <<>> THEN rejected(c, "Invalid channel")
      ELSE [c EXCEPT !.subscriptions = c.subscriptions \cup {channel[1]},
                     !.pc = "channels.subscribe"]

\* handle_subscribe up to its first await.
subscribe_requested(c, channel_str, token) ==
  LET channel == parse(channel_str)
  IN  IF channel = <<>> THEN rejected(c, "Invalid channel")
      ELSE IF requires_auth(channel[1])
      THEN IF token THEN rejected(c, "Authentication not implemented")
           ELSE rejected(c, "Authentication required for this channel")
      ELSE IF is_subscribed(c, channel[1])
      THEN rejected(c, "Already subscribed")
      ELSE IF ~can_subscribe(c, channel[1])
      THEN rejected(c, "Not authorized to subscribe to this channel")
      ELSE [c EXCEPT !.subscriptions = c.subscriptions \cup {channel[1]},
                     !.pc = "channels.subscribe"]

\* handle_unsubscribe up to its first await.
unsubscribe_requested(c, channel_str) ==
  LET channel == parse(channel_str)
  IN  IF channel = <<>> THEN rejected(c, "Invalid channel")
      ELSE IF ~is_subscribed(c, channel[1])
      THEN rejected(c, "Not subscribed")
      ELSE [c EXCEPT !.subscriptions = c.subscriptions \ {channel[1]},
                     !.pc = "channels.unsubscribe"]

\* ChannelManager::subscribe
subscribe(subs, channel, connection_id) ==
  [ch \in DOMAIN subs \cup {channel} |->
     IF ch = channel
     THEN (IF ch \in DOMAIN subs THEN subs[ch] ELSE {}) \cup {connection_id}
     ELSE subs[ch]]

\* ChannelManager::unsubscribe that keeps the emptied channel.
unsubscribe_keeping(subs, channel, connection_id) ==
  [ch \in DOMAIN subs |->
     IF ch = channel THEN subs[ch] \ {connection_id} ELSE subs[ch]]

\* ChannelManager::unsubscribe
unsubscribe(subs, channel, connection_id) ==
  IF channel \in DOMAIN subs
  THEN IF subs[channel] \ {connection_id} = {}
       THEN [ch \in DOMAIN subs \ {channel} |-> subs[ch]]
       ELSE [subs EXCEPT ![channel] = subs[channel] \ {connection_id}]
  ELSE subs

\* ChannelManager::unsubscribe_all
unsubscribe_all(subs, connection_id) ==
  LET empty_channels ==
        {ch \in DOMAIN subs : subs[ch] \ {connection_id} = {}}
  IN  [ch \in DOMAIN subs \ empty_channels |-> subs[ch] \ {connection_id}]

\* handle_subscribe after channels.subscribe, sending the snapshot at once.
subscribe_registered_early(c) ==
  [send(c, snapshot_message(c.request.channel))
     EXCEPT !.pc = "get_channel_snapshot"]

\* handle_subscribe after channels.subscribe: the confirmation is sent.
subscribe_registered(c) ==
  [send(c, subscribed(c.request.channel)) EXCEPT !.pc = "get_channel_snapshot"]

\* handle_subscribe after get_channel_snapshot: the snapshot is sent.
snapshot_read(c) == handled(send(c, snapshot_message(c.request.channel)))

\* handle_unsubscribe after channels.unsubscribe.
unsubscribe_registered(c) ==
  handled(send(c, unsubscribed(c.request.channel)))

ApiIdle ==
  /\ CONNECTION_ID_COUNTER = 1
  /\ connections = <<>>
  /\ channels = <<>>


\* ------------------------------------------------------ sdk ws client
MaxCallers == 2
MaxWsCalls == 4
MaxConnects == 2
Callers == 1 .. MaxCallers

\* Subscription::book(market) and Subscription::trades(market) of one
\* market.
Subscriptions == {"book", "trades"}

\* MatchbookWsClient::new: no sink, no subscription, not connected.
MatchbookWsClient ==
  [sink |-> "None", subscriptions |-> {}, connected |-> FALSE]

\* The socket behind the sink and the reader task on its other half.
\* sent holds the Subscribe messages sent since the connection was opened
\* or last known to be closed; over says that close() has returned or the
\* reader has seen the connection closed, and no connect has completed
\* since.
NoSocket == [state |-> "none", reader |-> "none", sent |-> {}, over |-> FALSE]

\* A caller between two calls, with the result of its last call.
Between(result) == [pc |-> "idle", sub |-> "none", result |-> result]

\* send: NotConnected without a sink, else what the sink's send returns.
client_send(c, outcome) ==
  IF c.sink = "None" THEN "NotConnected"
  ELSE IF outcome = "Err" THEN "SendFailed"
  ELSE "Ok"

\* subscriptions.write().await.insert(..)
subscription_inserted(c, sub) ==
  [c EXCEPT !.subscriptions = c.subscriptions \cup {sub}]

\* subscriptions.write().await.remove(..)
subscription_removed(c, sub) ==
  [c EXCEPT !.subscriptions = c.subscriptions \ {sub}]

\* close: *self.connected.write().await = false
close_flagged(c) == [c EXCEPT !.connected = FALSE]

\* close: the Close frame goes out if there is a sink; its result is
\* discarded.
close_frame_sent(c, socket) ==
  IF c.sink = "Some" /\ socket.state = "open"
  THEN [socket EXCEPT !.state = "closing"]
  ELSE socket

\* close: *self.sink.lock().await = None
sink_dropped(c) == [c EXCEPT !.sink = "None"]

\* close: self.subscriptions.write().await.clear()
subscriptions_cleared(c) == [c EXCEPT !.subscriptions = {}]

\* connect: *self.sink.lock().await = Some(sink)
sink_set(c) == [c EXCEPT !.sink = "Some"]

\* connect: *self.connected.write().await = true
connect_flagged(c) == [c EXCEPT !.connected = TRUE]

\* spawn_reader: on a Close frame or an error the reader clears the
\* connected flag and ends.
reader_closed(c) == [c EXCEPT !.connected = FALSE]

\* ------------------------------------------------------ sdk http client
MaxClientRetries == 2

\* What send() resolves to: a response with its status and body, or an
\* error; the client is built with a request timeout.
Responses ==
  {"200", "200_unparsable", "429", "404", "401", "500_api_error", "500",
   "timeout", "error"}

\* The Retry-After header of a 429 response, in seconds: an Option, as a
\* sequence of at most one element.
RetryAfters == {<<>>, <<2>>}

DEFAULT_MAX_RETRIES == 3

\* A request_with_retry call: its local variables, the requests sent, the
\* responses received and the sleeps taken so far, and what it returned.
Request(max_retries, pc, retry_count, last_error, sent, log, slept, result) ==
  [max_retries |-> max_retries, pc |-> pc, retry_count |-> retry_count,
   last_error |-> last_error, sent |-> sent, log |-> log, slept |-> slept,
   result |-> result]

NoCallYet(max_retries) ==
  Request(max_retries, "idle", 0, "None", 0, <<>>, <<>>, "None")

\* return of request_with_retry.
returned(r, result) == [r EXCEPT !.pc = "returned", !.result = result]

\* The test of the while loop: the next request goes out, or the call
\* returns the last error.
while_test(r) ==
  IF r.retry_count <= r.max_retries
  THEN [r EXCEPT !.pc = "sending", !.sent = r.sent + 1]
  ELSE returned(r, IF r.last_error = "None" THEN "Timeout" ELSE r.last_error)

\* request_with_retry up to its first await.
request_with_retry(max_retries) == while_test(NoCallYet(max_retries))

\* A retry is left once one more than the retries allowed has been used.
can_retry_once_more(r) == r.retry_count <= r.max_retries

\* retry_count < self.config.max_retries
can_retry(r) == r.retry_count < r.max_retries

\* 100 * (1 << retry_count) milliseconds.
timeout_backoff(retry_count) == 100 * (2 ^ retry_count)

\* The 429 branch: sleep wait_time seconds, or RateLimited.
too_many_requests(r, retry_after) ==
  IF can_retry(r)
  THEN [r EXCEPT !.pc = "sleeping",
                 !.slept = Append(r.slept,
                                  1000 * (IF retry_after = <<>> THEN 1
                                          ELSE retry_after[1])),
                 !.retry_count = r.retry_count + 1]
  ELSE returned(r, "RateLimited")

\* The Err branch: a timeout is retried while a retry is left.
send_failed(r, is_timeout) ==
  IF is_timeout /\ can_retry(r)
  THEN [r EXCEPT !.pc = "sleeping",
                 !.retry_count = r.retry_count + 1,
                 !.slept = Append(r.slept, timeout_backoff(r.retry_count + 1)),
                 !.last_error = "Timeout"]
  ELSE returned(r, IF is_timeout THEN "Timeout" ELSE "Request")

\* The match on what send() resolved to.
matched(r, response, retry_after) ==
  IF response = "200" THEN returned(r, "Ok")
  ELSE IF response = "200_unparsable" THEN returned(r, "Deserialization")
  ELSE IF response = "429" THEN too_many_requests(r, retry_after)
  ELSE IF response = "404" THEN returned(r, "NotFound")
  ELSE IF response = "401" THEN returned(r, "Unauthorized")
  ELSE IF response \in {"500_api_error", "500"} THEN returned(r, "Api")
  ELSE send_failed(r, response = "timeout")

response_received(r, response, retry_after) ==
  matched([r EXCEPT !.log = Append(r.log, response)], response, retry_after)

\* The sleep is over: continue.
sleep_elapsed(r) == while_test(r)

HttpIdle == http_request = NoCallYet(DEFAULT_MAX_RETRIES)

SdkIdle ==
  /\ ws_client = MatchbookWsClient
  /\ ws_socket = NoSocket
  /\ ws_callers = [tasks |-> [t \in Callers |-> Between("None")],
                   calls |-> 0, connects |-> 0]
  /\ HttpIdle

\* ------------------------------------------------------------ operations
BookOf(side) == IF side = "Bid" THEN bids ELSE asks

\* Record of the last operation: its outcome and the account data it
\* started from.
Outcome(op, status, limit, match_count, steps, b, a, q) ==
  [op |-> op, status |-> status, limit |-> limit,
   match_count |-> match_count, steps |-> steps,
   bids_before |-> b, asks_before |-> a, queue_before |-> q]

\* Outcome of an operation other than a match.
Plain(op, status) ==
  Outcome(op, status, 0, 0, <<>>, EmptyBook, EmptyBook, EmptyQueue)

Init ==
  /\ market \in MarketConfigs
  /\ order_seq = 0
  /\ bids = EmptyBook
  /\ asks = EmptyBook
  /\ event_queue = EmptyQueue
  /\ last = Plain("init", "Ok")
  /\ IndexerIdle
  /\ CrankIdle
  /\ ApiIdle
  /\ SdkIdle

\* The account writes of an operation on one side of the book.
WriteBook(side, r) ==
  /\ bids' = IF side = "Bid" THEN r.book ELSE bids
  /\ asks' = IF side = "Ask" THEN r.book ELSE asks

Placed(side, r) ==
  /\ WriteBook(side, r)
  /\ order_seq' = IF r.status = "Ok" THEN order_seq + 1 ELSE order_seq
  /\ last' = Plain("place", r.status)
  /\ UNCHANGED <<market, event_queue>>
  /\ UNCHANGED offchain

\* A new resting order: the key is built from the price and the market's
\* next insertion sequence, the leaf goes into the side's arena.
PlaceOrder(side, price, quantity) ==
  /\ order_seq < MaxOrders
  /\ Placed(side,
            insert_leaf(BookOf(side),
                        OrderKey(price, order_seq, side = "Bid"),
                        OwnerOf(order_seq), quantity, ClientIdOf(order_seq)))

\* Order ids a caller can name: every key ever written to the side's arena.
KnownIds(book) ==
  {book.nodes[i].key : i \in {j \in Slots : book.nodes[j].tag # TAG_UNINIT}}

\* remove(order_id) on one side.
CancelOrder(side, order_id) ==
  /\ WriteBook(side, remove_order(BookOf(side), order_id))
  /\ last' = Plain("cancel", remove_order(BookOf(side), order_id).status)
  /\ UNCHANGED <<market, order_seq, event_queue>>
  /\ UNCHANGED offchain

\* The accounts after an invocation of handler; a failed invocation leaves
\* them as they were (the ledger discards the writes of a failed
\* transaction).
Committed(limit, r) ==
  /\ bids' = IF r.status = "Ok" THEN r.bids ELSE bids
  /\ asks' = IF r.status = "Ok" THEN r.asks ELSE asks
  /\ event_queue' = IF r.status = "Ok" THEN r.queue ELSE event_queue
  /\ last' = Outcome("match", r.status, limit, r.match_count, r.steps,
                     bids, asks, event_queue)
  /\ UNCHANGED <<market, order_seq>>
  /\ UNCHANGED offchain

\* The match instruction.
MatchOrders(limit) ==
  Committed(limit, handler(market, bids, asks, event_queue, limit))

\* The settlement consumer drains the n oldest events.
ConsumeEvents(n) ==
  /\ n <= event_queue.count
  /\ event_queue' = consume_events(event_queue, n)
  /\ last' = Plain("consume", "Ok")
  /\ UNCHANGED <<market, order_seq, bids, asks>>
  /\ UNCHANGED offchain

\* update_quantity(order_id, new_quantity) on one side.
UpdateQuantity(side, order_id, new_quantity) ==
  /\ WriteBook(side,
               update_order_quantity(BookOf(side), order_id, new_quantity))
  /\ last' = Plain("update",
                   update_order_quantity(BookOf(side), order_id,
                                         new_quantity).status)
  /\ UNCHANGED <<market, order_seq, event_queue>>
  /\ UNCHANGED offchain

Next ==
  \/ \E side \in Sides, price \in Prices, quantity \in Quantities :
       PlaceOrder(side, price, quantity)
  \/ \E limit \in 0 .. MaxLimit : MatchOrders(limit)
  \/ \E n \in 1 .. EventCap : ConsumeEvents(n)

Spec == Init /\ [][Next]_vars

InitIndex ==
  /\ market = Market(1, 1, 100, -50, TRUE)
  /\ order_seq = 0
  /\ bids = EmptyBook
  /\ asks = EmptyBook
  /\ event_queue = EmptyQueue
  /\ last = Plain("init", "Ok")
  /\ IndexerIdle
  /\ CrankIdle
  /\ ApiIdle
  /\ SdkIdle

\* The index alone: inserts, removals and quantity updates on both sides.
NextIndex ==
  \/ \E side \in Sides, price \in Prices, quantity \in IndexQuantities :
       /\ order_seq < IndexOrders
       /\ PlaceOrder(side, price, quantity)
  \/ \E side \in Sides : \E order_id \in KnownIds(BookOf(side)) :
       CancelOrder(side, order_id)
  \/ \E side \in Sides : \E order_id \in KnownIds(BookOf(side)) :
       \E new_quantity \in UpdatedQuantities :
         UpdateQuantity(side, order_id, new_quantity)

SpecIndex == InitIndex /\ [][NextIndex]_vars

\* One bid and one ask under many fee schedules, prices and quantities.
InitFees ==
  /\ market \in FeeMarkets
  /\ order_seq = 0
  /\ bids = EmptyBook
  /\ asks = EmptyBook
  /\ event_queue = EmptyQueue
  /\ last = Plain("init", "Ok")
  /\ IndexerIdle
  /\ CrankIdle
  /\ ApiIdle
  /\ SdkIdle

NextFees ==
  \/ \E side \in Sides, price \in FeePrices, quantity \in FeeQuantities :
       /\ BookOf(side).leaf_count = 0
       /\ order_seq < 2
       /\ PlaceOrder(side, price, quantity)
  \/ \E limit \in 1 .. MaxLimit : MatchOrders(limit)

SpecFees == InitFees /\ [][NextFees]_vars

\* ------------------------------------------------------ indexer operations
\* Batches of at most n parsed events.
Batches(n) == UNION {[1 .. k -> EventTypes] : k \in 0 .. n}

Processed(market_key, events, head_seq_num, r) ==
  /\ processor' = r.processor
  /\ indexed' = Call("process_events", market_key, events, head_seq_num,
                     cursor, processor, r.result, indexed.calls + 1)
  /\ UNCHANGED cursor
  /\ UNCHANGED onchain
  /\ UNCHANGED crank
  /\ UNCHANGED api
  /\ UNCHANGED sdk

\* EventProcessor::process_events
ProcessEvents(market_key, events, head_seq_num, slot) ==
  /\ indexed.calls < MaxCalls
  /\ Processed(market_key, events, head_seq_num,
               process_events(processor, market_key, events, head_seq_num,
                              slot))

\* A call on the processor that returns nothing.
ProcessorCall(op, market_key, p) ==
  /\ processor' = p
  /\ indexed' = Call(op, market_key, <<>>, 0, cursor, processor, empty,
                     indexed.calls)
  /\ UNCHANGED cursor
  /\ UNCHANGED onchain
  /\ UNCHANGED crank
  /\ UNCHANGED api
  /\ UNCHANGED sdk

ResetCursor(market_key) ==
  ProcessorCall("reset_cursor", market_key,
                reset_cursor(processor, market_key))

RemoveMarket(market_key) ==
  ProcessorCall("remove_market", market_key,
                remove_market(processor, market_key))

Clear == ProcessorCall("clear", 0, clear(processor))

\* A call on the free-standing cursor.
CursorCall(op, seq_num, c) ==
  /\ cursor' = c
  /\ indexed' = Call(op, 0, <<>>, seq_num, cursor, processor, empty,
                     indexed.calls)
  /\ UNCHANGED processor
  /\ UNCHANGED onchain
  /\ UNCHANGED crank
  /\ UNCHANGED api
  /\ UNCHANGED sdk

MarkProcessed(seq_num) ==
  CursorCall("mark_processed", seq_num, mark_processed(cursor, seq_num))

UpdateHead(head_seq_num) ==
  CursorCall("update_head", head_seq_num, update_head(cursor, head_seq_num))

Reset == CursorCall("reset", 0, reset(cursor))

\* The processor alone: batches for two markets, resets and removals.
InitIndexer ==
  /\ market = Market(1, 1, 100, -50, TRUE)
  /\ order_seq = 0
  /\ bids = EmptyBook
  /\ asks = EmptyBook
  /\ event_queue = EmptyQueue
  /\ last = Plain("init", "Ok")
  /\ IndexerIdle
  /\ CrankIdle
  /\ ApiIdle
  /\ SdkIdle

NextIndexer ==
  \/ \E market_key \in MarketKeys, events \in Batches(MaxBatch),
        head_seq_num \in HeadSeqs, slot \in SlotNumbers :
       ProcessEvents(market_key, events, head_seq_num, slot)
  \/ \E market_key \in MarketKeys : ResetCursor(market_key)
  \/ \E market_key \in MarketKeys : RemoveMarket(market_key)
  \/ Clear

SpecIndexer == InitIndexer /\ [][NextIndexer]_vars

\* Cursors: a free-standing cursor built by either constructor and driven
\* through its own methods, next to a processor fed one-event batches of
\* one market.
InitCursor ==
  /\ market = Market(1, 1, 100, -50, TRUE)
  /\ order_seq = 0
  /\ bids = EmptyBook
  /\ asks = EmptyBook
  /\ event_queue = EmptyQueue
  /\ last = Plain("init", "Ok")
  /\ cursor \in {EventCursor(h) : h \in CursorSeqs}
                \cup {with_last_processed(h, l) :
                        h \in CursorSeqs, l \in CursorSeqs}
  /\ processor = EventProcessor
  /\ indexed = NoCall
  /\ CrankIdle
  /\ ApiIdle
  /\ SdkIdle

NextCursor ==
  \/ \E seq_num \in CursorSeqs : MarkProcessed(seq_num)
  \/ \E head_seq_num \in CursorSeqs : UpdateHead(head_seq_num)
  \/ Reset
  \/ \E events \in Batches(1), head_seq_num \in HeadSeqs,
        slot \in SlotNumbers :
       ProcessEvents(1, events, head_seq_num, slot)
  \/ ResetCursor(1)

SpecCursor == InitCursor /\ [][NextCursor]_vars

\* -------------------------------------------------------- crank operations
Outcomes == {"Ok", "Err"}

\* TransactionSubmitter::submit is called.
Submit ==
  /\ submission.pc = "idle"
  /\ submission' = submit(submitter)
  /\ UNCHANGED <<submitter, service, onchain, indexer, api, sdk>>

\* The RPC answers the submission: try_submit returns.
TrySubmitReturns(outcome) ==
  /\ submission.pc = "try_submit"
  /\ submission' = try_submit_returned(submitter, submission, outcome)
  /\ UNCHANGED <<submitter, service, onchain, indexer, api, sdk>>

\* wait_for_confirmation returns.
ConfirmationReturns(outcome) ==
  /\ submission.pc = "wait_for_confirmation"
  /\ submission' = confirmation_returned(submitter, submission, outcome)
  /\ UNCHANGED <<submitter, service, onchain, indexer, api, sdk>>

\* tokio::time::sleep(backoff) elapses.
SleepReturns ==
  /\ submission.pc = "sleep"
  /\ submission' = sleep_returned(submitter, submission)
  /\ UNCHANGED <<submitter, service, onchain, indexer, api, sdk>>

InitSubmit ==
  /\ market = Market(1, 1, 100, -50, TRUE)
  /\ order_seq = 0
  /\ bids = EmptyBook
  /\ asks = EmptyBook
  /\ event_queue = EmptyQueue
  /\ last = Plain("init", "Ok")
  /\ IndexerIdle
  /\ submitter \in SubmitterConfigs
  /\ submission = Submission("idle", 0, 0, 0, <<>>, NoResult)
  /\ ServiceIdle
  /\ ApiIdle
  /\ SdkIdle

NextSubmit ==
  \/ Submit
  \/ \E outcome \in Outcomes : TrySubmitReturns(outcome)
  \/ \E outcome \in Outcomes : ConfirmationReturns(outcome)
  \/ SleepReturns

\* Every await of submit completes: the RPC answers or fails, the sleep
\* elapses.
SpecSubmit == InitSubmit /\ [][NextSubmit]_vars /\ WF_vars(NextSubmit)

\* ------------------------------------------------------ service operations
\* Prices of snapshot levels, up to the largest u64.
SnapshotPrices == {0, 100, 200, I64_MAX, I64_MAX + 1, U64_MAX}

SnapshotSides ==
  {<<>>} \cup {<<PriceLevel(p, q)>> : p \in SnapshotPrices, q \in {1, 2}}

\* What get_snapshot(market, 1) can return.
Snapshots ==
  {NoSnapshot} \cup {Snapshot(b, a) : b \in SnapshotSides, a \in SnapshotSides}

\* run() is called: its future is created, or its task spawned.
RunCalled ==
  /\ service.pc = "idle"
  /\ service' = [service EXCEPT !.pc = "spawned"]
  /\ UNCHANGED <<submitter, submission, onchain, indexer, api, sdk>>

\* run() begins to execute.
RunStarts ==
  /\ service.pc = "spawned"
  /\ service' = run_started(service)
  /\ UNCHANGED <<submitter, submission, onchain, indexer, api, sdk>>

\* while self.is_running()
LoopTest ==
  /\ service.pc = "test"
  /\ service' = loop_test(service)
  /\ UNCHANGED <<submitter, submission, onchain, indexer, api, sdk>>

\* detect_crosses returns.
DetectReturns(snapshot) ==
  /\ service.pc = "detect"
  /\ service' = crosses_detected(service, snapshot)
  /\ UNCHANGED <<submitter, submission, onchain, indexer, api, sdk>>

\* submitter.submit returns.
SubmitReturns ==
  /\ service.pc = "submit"
  /\ service' = submit_returned(service)
  /\ UNCHANGED <<submitter, submission, onchain, indexer, api, sdk>>

\* sleep(poll_interval) elapses.
IntervalElapses ==
  /\ service.pc = "sleep"
  /\ service' = interval_elapsed(service)
  /\ UNCHANGED <<submitter, submission, onchain, indexer, api, sdk>>

\* stop() is called, from any task, at any time.
Stop ==
  /\ service' = stop(service)
  /\ UNCHANGED <<submitter, submission, onchain, indexer, api, sdk>>

InitService ==
  /\ market = Market(1, 1, 100, -50, TRUE)
  /\ order_seq = 0
  /\ bids = EmptyBook
  /\ asks = EmptyBook
  /\ event_queue = EmptyQueue
  /\ last = Plain("init", "Ok")
  /\ IndexerIdle
  /\ submitter = DefaultSubmitterConfig
  /\ submission = Submission("idle", 0, 0, 0, <<>>, NoResult)
  /\ \E check \in BOOLEAN :
       service = NewService(CrankConfig(1000, 10000, 10, check, 5000))
  /\ ApiIdle
  /\ SdkIdle

\* The steps of run.
RunSteps ==
  \/ RunCalled
  \/ RunStarts
  \/ LoopTest
  \/ \E snapshot \in Snapshots : DetectReturns(snapshot)
  \/ SubmitReturns
  \/ IntervalElapses

NextService ==
  \/ RunSteps
  \/ Stop

\* run is polled until it returns and each of its awaits completes; nothing
\* obliges anyone to call stop.
SpecService == InitService /\ [][NextService]_vars /\ WF_vars(RunSteps)

\* ---------------------------------------------------------- api operations
MaxConnections == 2

\* The channel strings clients send: two public channels, a private one,
\* and two that do not parse.
ChannelStrs ==
  {ChannelStr("book", 1), ChannelStr("trades", 1), ChannelStr("orders", 1),
   ChannelStr("invalid", 1), ChannelStr("book", 0)}

Subscribe(channel_str, token) ==
  [type |-> "subscribe", channel |-> channel_str, token |-> token]

Unsubscribe(channel_str) ==
  [type |-> "unsubscribe", channel |-> channel_str]

\* A request begins: the log of the previous one is dropped.
Receiving(c, request) ==
  [c EXCEPT !.request = request, !.result = "", !.sent = <<>>]

\* handle_connection is entered for an upgraded socket: Connection::new.
Open ==
  /\ Len(connections) < MaxConnections
  /\ LET n == next_connection_id(CONNECTION_ID_COUNTER)
     IN  /\ CONNECTION_ID_COUNTER' = n.counter
         /\ connections' = Append(connections, Connection(n.id))
  /\ UNCHANGED <<channels, onchain, indexer, crank, sdk>>

\* A Subscribe message arrives at connection t.
ReceiveSubscribe(t, channel_str, token) ==
  /\ connections[t].pc = "receive"
  /\ connections' =
       [connections EXCEPT ![t] =
          subscribe_requested(
            Receiving(connections[t], Subscribe(channel_str, token)),
            channel_str, token)]
  /\ UNCHANGED <<CONNECTION_ID_COUNTER, channels, onchain, indexer, crank, sdk>>

\* channels.subscribe(...).await completes for connection t.
ChannelsSubscribe(t) ==
  /\ connections[t].pc = "channels.subscribe"
  /\ channels' = subscribe(channels, parse(connections[t].request.channel)[1],
                           connections[t].id)
  /\ connections' =
       [connections EXCEPT ![t] = subscribe_registered(connections[t])]
  /\ UNCHANGED <<CONNECTION_ID_COUNTER, onchain, indexer, crank, sdk>>

\* get_channel_snapshot(...).await completes for connection t.
SnapshotRead(t) ==
  /\ connections[t].pc = "get_channel_snapshot"
  /\ connections' = [connections EXCEPT ![t] = snapshot_read(connections[t])]
  /\ UNCHANGED <<CONNECTION_ID_COUNTER, channels, onchain, indexer, crank, sdk>>

\* An Unsubscribe message arrives at connection t.
ReceiveUnsubscribe(t, channel_str) ==
  /\ connections[t].pc = "receive"
  /\ connections' =
       [connections EXCEPT ![t] =
          unsubscribe_requested(
            Receiving(connections[t], Unsubscribe(channel_str)),
            channel_str)]
  /\ UNCHANGED <<CONNECTION_ID_COUNTER, channels, onchain, indexer, crank, sdk>>

\* channels.unsubscribe(...).await completes for connection t.
ChannelsUnsubscribe(t) ==
  /\ connections[t].pc = "channels.unsubscribe"
  /\ channels' = unsubscribe(channels,
                             parse(connections[t].request.channel)[1],
                             connections[t].id)
  /\ connections' =
       [connections EXCEPT ![t] = unsubscribe_registered(connections[t])]
  /\ UNCHANGED <<CONNECTION_ID_COUNTER, onchain, indexer, crank, sdk>>

\* A Ping arrives at connection t.
ReceivePing(t) ==
  /\ connections[t].pc = "receive"
  /\ connections' =
       [connections EXCEPT ![t] =
          handled(send(Receiving(connections[t], [type |-> "ping"]), pong))]
  /\ UNCHANGED <<CONNECTION_ID_COUNTER, channels, onchain, indexer, crank, sdk>>

\* A Close frame, a socket error or the end of the stream: the receive
\* loop of connection t ends.
ReceiveClose(t) ==
  /\ connections[t].pc = "receive"
  /\ connections' =
       [connections EXCEPT ![t] =
          [Receiving(connections[t], [type |-> "close"])
             EXCEPT !.pc = "channels.unsubscribe_all"]]
  /\ UNCHANGED <<CONNECTION_ID_COUNTER, channels, onchain, indexer, crank, sdk>>

\* channels.unsubscribe_all(...).await completes: the task of connection
\* t ends and its Connection is dropped.
Cleanup(t) ==
  /\ connections[t].pc = "channels.unsubscribe_all"
  /\ channels' = unsubscribe_all(channels, connections[t].id)
  /\ connections' =
       [connections EXCEPT ![t] =
          [connections[t] EXCEPT !.pc = "closed", !.subscriptions = {}]]
  /\ UNCHANGED <<CONNECTION_ID_COUNTER, onchain, indexer, crank, sdk>>

InitApi ==
  /\ market = Market(1, 1, 100, -50, TRUE)
  /\ order_seq = 0
  /\ bids = EmptyBook
  /\ asks = EmptyBook
  /\ event_queue = EmptyQueue
  /\ last = Plain("init", "Ok")
  /\ IndexerIdle
  /\ CrankIdle
  /\ ApiIdle
  /\ SdkIdle

NextApi ==
  \/ Open
  \/ \E t \in 1 .. Len(connections) :
       \/ \E channel_str \in ChannelStrs, token \in BOOLEAN :
            ReceiveSubscribe(t, channel_str, token)
       \/ ChannelsSubscribe(t)
       \/ SnapshotRead(t)
       \/ \E channel_str \in ChannelStrs : ReceiveUnsubscribe(t, channel_str)
       \/ ChannelsUnsubscribe(t)
       \/ ReceivePing(t)
       \/ ReceiveClose(t)
       \/ Cleanup(t)

SpecApi == InitApi /\ [][NextApi]_vars

\* ---------------------------------------------- sdk http client operations
\* get(path) calls request_with_retry.
RequestWithRetry ==
  /\ http_request.pc = "idle"
  /\ http_request' = request_with_retry(http_request.max_retries)
  /\ UNCHANGED <<ws_client, ws_socket, ws_callers, onchain, indexer, crank, api>>

\* request_fn().send().await resolves.
SendReturns(response, retry_after) ==
  /\ http_request.pc = "sending"
  /\ http_request' = response_received(http_request, response, retry_after)
  /\ UNCHANGED <<ws_client, ws_socket, ws_callers, onchain, indexer, crank, api>>

\* tokio::time::sleep(..).await resolves.
SleepElapses ==
  /\ http_request.pc = "sleeping"
  /\ http_request' = sleep_elapsed(http_request)
  /\ UNCHANGED <<ws_client, ws_socket, ws_callers, onchain, indexer, crank, api>>

InitHttp ==
  /\ market = Market(1, 1, 100, -50, TRUE)
  /\ order_seq = 0
  /\ bids = EmptyBook
  /\ asks = EmptyBook
  /\ event_queue = EmptyQueue
  /\ last = Plain("init", "Ok")
  /\ IndexerIdle
  /\ CrankIdle
  /\ ApiIdle
  /\ ws_client = MatchbookWsClient
  /\ ws_socket = NoSocket
  /\ ws_callers = [tasks |-> [t \in Callers |-> Between("None")],
                   calls |-> 0, connects |-> 0]
  /\ \E max_retries \in 0 .. MaxClientRetries :
       http_request = NoCallYet(max_retries)

NextHttp ==
  \/ RequestWithRetry
  \/ \E response \in Responses, retry_after \in RetryAfters :
       SendReturns(response, retry_after)
  \/ SleepElapses

\* The runtime polls the call's future: a request that was sent resolves
\* within the client's timeout, and a sleep elapses.
SpecHttp == InitHttp /\ [][NextHttp]_vars /\ WF_vars(NextHttp)

\* ------------------------------------------------ sdk ws client operations
\* The caller moves on to pc, or returns result when pc is "idle".
CallerAt(t, pc, sub, result, calls, connects) ==
  ws_callers' =
    [tasks |-> [ws_callers.tasks EXCEPT
                  ![t] = [pc |-> pc, sub |-> sub, result |-> result]],
     calls |-> ws_callers.calls + calls,
     connects |-> ws_callers.connects + connects]

WsReturns(t, result) == CallerAt(t, "idle", "none", result, 0, 0)

ConnectPcs == {"connect_sink", "connect_flag"}
ClosePcs == {"close_send", "close_drop", "close_clear"}

\* No caller is inside one of the calls.
NoneAt(pcs) == \A u \in Callers : ws_callers.tasks[u].pc \notin pcs

WsCallable(t) ==
  /\ ws_callers.tasks[t].pc = "idle"
  /\ ws_callers.calls < MaxWsCalls

\* subscribe_book / subscribe_trades up to the return of send: the
\* Subscribe message is on the wire, or the call fails.
SubscribeSends(t, sub, outcome) ==
  /\ WsCallable(t)
  /\ IF client_send(ws_client, outcome) = "Ok"
     THEN /\ CallerAt(t, "inserting", sub, "None", 1, 0)
          /\ ws_socket' = [ws_socket EXCEPT !.sent = ws_socket.sent \cup {sub}]
     ELSE /\ CallerAt(t, "idle", "none", client_send(ws_client, outcome), 1, 0)
          /\ UNCHANGED ws_socket
  /\ UNCHANGED <<ws_client, onchain, indexer, crank, api, http_request>>

\* The rest of subscribe_*: the subscription enters the set.
SubscribeInserts(t) ==
  /\ ws_callers.tasks[t].pc = "inserting"
  /\ ws_client' = subscription_inserted(ws_client, ws_callers.tasks[t].sub)
  /\ WsReturns(t, "Ok")
  /\ UNCHANGED <<ws_socket, onchain, indexer, crank, api, http_request>>

\* unsubscribe up to the return of send.
UnsubscribeSends(t, sub, outcome) ==
  /\ WsCallable(t)
  /\ IF client_send(ws_client, outcome) = "Ok"
     THEN CallerAt(t, "removing", sub, "None", 1, 0)
     ELSE CallerAt(t, "idle", "none", client_send(ws_client, outcome), 1, 0)
  /\ UNCHANGED <<ws_client, ws_socket, onchain, indexer, crank, api, http_request>>

\* The rest of unsubscribe: the subscription leaves the set.
UnsubscribeRemoves(t) ==
  /\ ws_callers.tasks[t].pc = "removing"
  /\ ws_client' = subscription_removed(ws_client, ws_callers.tasks[t].sub)
  /\ WsReturns(t, "Ok")
  /\ UNCHANGED <<ws_socket, onchain, indexer, crank, api, http_request>>

\* close, first statement; connect and close are not called concurrently
\* with one another.
CloseFlags(t) ==
  /\ WsCallable(t)
  /\ NoneAt(ConnectPcs)
  /\ ws_client' = close_flagged(ws_client)
  /\ CallerAt(t, "close_send", "none", "None", 1, 0)
  /\ UNCHANGED <<ws_socket, onchain, indexer, crank, api, http_request>>

\* close, second statement, under the sink lock.
CloseSends(t) ==
  /\ ws_callers.tasks[t].pc = "close_send"
  /\ ws_socket' = close_frame_sent(ws_client, ws_socket)
  /\ CallerAt(t, "close_drop", "none", "None", 0, 0)
  /\ UNCHANGED <<ws_client, onchain, indexer, crank, api, http_request>>

\* close, third statement.
CloseDrops(t) ==
  /\ ws_callers.tasks[t].pc = "close_drop"
  /\ ws_client' = sink_dropped(ws_client)
  /\ CallerAt(t, "close_clear", "none", "None", 0, 0)
  /\ UNCHANGED <<ws_socket, onchain, indexer, crank, api, http_request>>

\* close, last statement and return.
CloseClears(t) ==
  /\ ws_callers.tasks[t].pc = "close_clear"
  /\ ws_client' = subscriptions_cleared(ws_client)
  /\ ws_socket' = [ws_socket EXCEPT !.sent = {}, !.over = TRUE]
  /\ WsReturns(t, "Ok")
  /\ UNCHANGED <<onchain, indexer, crank, api, http_request>>

\* connect up to the return of connect_async; it is called when no
\* socket is alive.
ConnectReturns(t, outcome) ==
  /\ WsCallable(t)
  /\ ws_callers.connects < MaxConnects
  /\ ws_socket.state \in {"none", "closed"}
  /\ NoneAt(ConnectPcs \cup ClosePcs)
  /\ IF outcome = "Ok"
     THEN /\ CallerAt(t, "connect_sink", "none", "None", 1, 1)
          /\ ws_socket' = [state |-> "open", reader |-> "none", sent |-> {},
                           over |-> ws_socket.over]
     ELSE /\ CallerAt(t, "idle", "none", "Connection", 1, 1)
          /\ UNCHANGED ws_socket
  /\ UNCHANGED <<ws_client, onchain, indexer, crank, api, http_request>>

\* connect: the sink is stored.
ConnectSetsSink(t) ==
  /\ ws_callers.tasks[t].pc = "connect_sink"
  /\ ws_client' = sink_set(ws_client)
  /\ CallerAt(t, "connect_flag", "none", "None", 0, 0)
  /\ UNCHANGED <<ws_socket, onchain, indexer, crank, api, http_request>>

\* connect: the flag is set, the reader is spawned, the call returns.
ConnectFlags(t) ==
  /\ ws_callers.tasks[t].pc = "connect_flag"
  /\ ws_client' = connect_flagged(ws_client)
  /\ ws_socket' = [ws_socket EXCEPT !.reader = "reading", !.over = FALSE]
  /\ WsReturns(t, "Ok")
  /\ UNCHANGED <<onchain, indexer, crank, api, http_request>>

\* The server closes the connection, of its own accord or in answer to
\* the client's Close frame.
ServerCloses ==
  /\ ws_socket.state \in {"open", "closing"}
  /\ ws_socket' = [ws_socket EXCEPT !.state = "server_closed"]
  /\ UNCHANGED <<ws_client, ws_callers, onchain, indexer, crank, api, http_request>>

\* The reader task receives the server's Close frame.
ReaderSeesClose ==
  /\ ws_socket.state = "server_closed"
  /\ ws_socket.reader = "reading"
  /\ ws_client' = reader_closed(ws_client)
  /\ ws_socket' = [ws_socket EXCEPT !.state = "closed", !.reader = "done",
                                    !.sent = {}, !.over = TRUE]
  /\ UNCHANGED <<ws_callers, onchain, indexer, crank, api, http_request>>

InitWs ==
  /\ market = Market(1, 1, 100, -50, TRUE)
  /\ order_seq = 0
  /\ bids = EmptyBook
  /\ asks = EmptyBook
  /\ event_queue = EmptyQueue
  /\ last = Plain("init", "Ok")
  /\ IndexerIdle
  /\ CrankIdle
  /\ ApiIdle
  /\ SdkIdle

NextWs ==
  \/ \E t \in Callers, sub \in Subscriptions, outcome \in Outcomes :
       SubscribeSends(t, sub, outcome)
  \/ \E t \in Callers : SubscribeInserts(t)
  \/ \E t \in Callers, sub \in Subscriptions, outcome \in Outcomes :
       UnsubscribeSends(t, sub, outcome)
  \/ \E t \in Callers : UnsubscribeRemoves(t)
  \/ \E t \in Callers : CloseFlags(t)
  \/ \E t \in Callers : CloseSends(t)
  \/ \E t \in Callers : CloseDrops(t)
  \/ \E t \in Callers : CloseClears(t)
  \/ \E t \in Callers, outcome \in Outcomes : ConnectReturns(t, outcome)
  \/ \E t \in Callers : ConnectSetsSink(t)
  \/ \E t \in Callers : ConnectFlags(t)
  \/ ServerCloses
  \/ ReaderSeesClose

SpecWs == InitWs /\ [][NextWs]_vars


\* ---------------------------------------------------------------- claims
\* Slots holding a resting order.
Resting(book) == {i \in Slots : book.nodes[i].tag = TAG_LEAF}

RestingKeys(book) == {book.nodes[i].key : i \in Resting(book)}

\* Remaining quantity of the resting order with the key, 0 if none rests.
QtyOf(book, key) ==
  IF key \in RestingKeys(book)
  THEN book.nodes[CHOOSE i \in Resting(book) : book.nodes[i].key = key].quantity
  ELSE 0

RECURSIVE SumQty(_, _)
SumQty(book, slots) ==
  IF slots = {} THEN 0
  ELSE LET i == CHOOSE j \in slots : TRUE
       IN book.nodes[i].quantity + SumQty(book, slots \ {i})

TotalQty(book) == SumQty(book, Resting(book))

\* No resting bid is priced at or above a resting ask.
NoCross(b, a) ==
  \A i \in Resting(b), j \in Resting(a) :
    OrderPrice(b.nodes[i].key, TRUE) < OrderPrice(a.nodes[j].key, FALSE)

\* Event at logical position i from head.
EventAt(queue, i) == queue.events[(queue.head + i) % EventCap]

\* Logical positions of the events a queue gained since an earlier one
\* with the same head.
Appended(before, after) == before.count .. (after.count - 1)

\* The record written by the Fill push of a step.
FillOf(step) == EventAt(step.queue_after, step.queue_before.count)

StepsOf(o) == {o.steps[k] : k \in 1 .. Len(o.steps)}

RECURSIVE SumFills(_, _)
SumFills(queue, positions) ==
  IF positions = {} THEN 0
  ELSE LET i == CHOOSE j \in positions : TRUE
       IN (IF EventAt(queue, i).tag = EVENT_FILL
           THEN EventAt(queue, i).quantity ELSE 0)
          + SumFills(queue, positions \ {i})

\* C1: best(side) returns the resting order with the extreme key of its
\* side (highest for bids, lowest for asks), which has the best price and
\* among equal prices the earliest insertion sequence, and it returns None
\* exactly when leaf_count = 0.
BestIsExtreme(book, is_bids) ==
  LET best == get_best_order(book, is_bids)
  IN /\ (~best.some) <=> (book.leaf_count = 0)
     /\ best.some =>
          /\ best.key \in RestingKeys(book)
          /\ \A k \in RestingKeys(book) :
               /\ IF is_bids THEN k <= best.key ELSE k >= best.key
               /\ IF is_bids
                  THEN OrderPrice(k, is_bids) <= best.price
                  ELSE OrderPrice(k, is_bids) >= best.price
               /\ OrderPrice(k, is_bids) = best.price
                    => OrderSeq(k, is_bids) >= OrderSeq(best.key, is_bids)

C1_BestIsExtreme == BestIsExtreme(bids, TRUE) /\ BestIsExtreme(asks, FALSE)

\* C2: a match invocation on books that do not cross (a side is empty or
\* the best bid is priced below the best ask) executes no match, returns 0
\* and leaves both books and the event log unchanged; no executed match
\* starts from books that do not cross.
C2_NoMatchWithoutCross ==
  last.op = "match" =>
    /\ \A step \in StepsOf(last) :
         ~NoCross(step.bids_before, step.asks_before)
    /\ NoCross(last.bids_before, last.asks_before) =>
         /\ last.steps = <<>>
         /\ last.match_count = 0
         /\ bids = last.bids_before
         /\ asks = last.asks_before
         /\ event_queue = last.queue_before
         /\ (last.limit > 0 /\ market.active) => last.status = "Ok"

C2_Witness ==
  /\ last.op = "match"
  /\ last.status = "Ok"
  /\ last.limit > 0
  /\ Resting(last.bids_before) # {}
  /\ Resting(last.asks_before) # {}
  /\ NoCross(last.bids_before, last.asks_before)

\* C3: a match invocation that returns fewer matches than its limit leaves
\* no cross: a side has no resting order or every resting bid is priced
\* below every resting ask.
C3_StopsOnlyWithoutCross ==
  (last.op = "match" /\ last.status = "Ok" /\ last.match_count < last.limit)
    => NoCross(bids, asks)

\* C4: every match takes min(bid.remaining, ask.remaining) from both
\* orders (a removed order counting as remaining 0), its Fill event carries
\* that quantity, and over an invocation the quantity taken from the bids,
\* the quantity taken from the asks and the sum of the Fill quantities are
\* equal.
StepConserves(step) ==
  LET bid_before == QtyOf(step.bids_before, step.result.bid_order_id)
      ask_before == QtyOf(step.asks_before, step.result.ask_order_id)
  IN /\ step.result.bid_order_id \in RestingKeys(step.bids_before)
     /\ step.result.ask_order_id \in RestingKeys(step.asks_before)
     /\ step.result.quantity = Min(bid_before, ask_before)
     /\ bid_before = QtyOf(step.bids_after, step.result.bid_order_id)
                       + step.result.quantity
     /\ ask_before = QtyOf(step.asks_after, step.result.ask_order_id)
                       + step.result.quantity
     /\ FillOf(step).tag = EVENT_FILL
     /\ FillOf(step).quantity = step.result.quantity

C4_QuantityConserved ==
  last.op = "match" =>
    /\ \A step \in StepsOf(last) : StepConserves(step)
    /\ last.status = "Ok" =>
         /\ TotalQty(last.bids_before) - TotalQty(bids)
              = SumFills(event_queue, Appended(last.queue_before, event_queue))
         /\ TotalQty(last.asks_before) - TotalQty(asks)
              = SumFills(event_queue, Appended(last.queue_before, event_queue))

C4_Witness ==
  /\ last.op = "match"
  /\ last.status = "Ok"
  /\ Len(last.steps) = 2
  /\ \E step \in StepsOf(last) :
       step.result.bid_remaining > 0 \/ step.result.ask_remaining > 0

\* C5: an invocation never reports success after an event push of it
\* failed with EventQueueFull.
C5_QueueFullIsFatal ==
  (last.op = "match" /\ last.status = "Ok") =>
    \A step \in StepsOf(last) :
      step.bid_out # "EventQueueFull" /\ step.ask_out # "EventQueueFull"

\* C6: in a successful invocation each side of a match is settled on its
\* own: an order left with remaining 0 is removed from its book and
\* exactly one Out event with reason Filled is appended for it, an order
\* with remaining > 0 stays with its quantity updated and gets no Out event.
OutsFor(step, side, order_id) ==
  {i \in Appended(step.queue_before, step.queue_after) :
     /\ EventAt(step.queue_after, i).tag = EVENT_OUT
     /\ EventAt(step.queue_after, i).side = side
     /\ EventAt(step.queue_after, i).order_id = order_id
     /\ EventAt(step.queue_after, i).reason = "Filled"}

SideSettled(step, side, before, after, order_id) ==
  IF QtyOf(before, order_id) = step.result.quantity
  THEN /\ order_id \notin RestingKeys(after)
       /\ Cardinality(OutsFor(step, side, order_id)) = 1
  ELSE /\ QtyOf(after, order_id) = QtyOf(before, order_id) - step.result.quantity
       /\ OutsFor(step, side, order_id) = {}

C6_SettledWithOut ==
  (last.op = "match" /\ last.status = "Ok") =>
    \A step \in StepsOf(last) :
      /\ SideSettled(step, "Bid", step.bids_before, step.bids_after,
                     step.result.bid_order_id)
      /\ SideSettled(step, "Ask", step.asks_before, step.asks_after,
                     step.result.ask_order_id)

\* C7: the price recorded in the Fill event of a match is the price of
\* whichever of the matched bid and ask was inserted first.
C7_MakerPrice ==
  last.op = "match" =>
    \A step \in StepsOf(last) :
      FillOf(step).price =
        IF OrderSeq(step.result.bid_order_id, TRUE)
             < OrderSeq(step.result.ask_order_id, FALSE)
        THEN OrderPrice(step.result.bid_order_id, TRUE)
        ELSE OrderPrice(step.result.ask_order_id, FALSE)

\* C8: no match is executed, and no Fill event emitted, when a product of
\* its fee computation overflows u64 or its divisor is zero.
ExactNotional(step) ==
  (step.result.quantity * step.result.price * market.quote_lot_size)
    \div market.base_lot_size

ArithmeticFails(step) ==
  \/ market.base_lot_size = 0
  \/ step.result.quantity * step.result.price > U64_MAX
  \/ step.result.quantity * step.result.price * market.quote_lot_size > U64_MAX
  \/ ExactNotional(step) * market.taker_fee_bps > U64_MAX
  \/ /\ market.maker_fee_bps < 0
     /\ ExactNotional(step) * (0 - market.maker_fee_bps) > U64_MAX

C8_ArithmeticFailureAborts ==
  last.op = "match" => \A step \in StepsOf(last) : ~ArithmeticFails(step)

\* C9: the Fill event of every match carries
\* taker_fee = floor(notional * taker_fee_bps / 10000) and
\* maker_rebate = floor(notional * |maker_fee_bps| / 10000) when
\* maker_fee_bps < 0 and 0 otherwise, with
\* notional = floor(quantity * price * quote_lot_size / base_lot_size).
C9_FillAmounts ==
  last.op = "match" =>
    \A step \in StepsOf(last) :
      /\ FillOf(step).taker_fee
           = (ExactNotional(step) * market.taker_fee_bps) \div 10000
      /\ FillOf(step).maker_rebate
           = IF market.maker_fee_bps < 0
             THEN (ExactNotional(step) * (0 - market.maker_fee_bps)) \div 10000
             ELSE 0

\* C10: the event log never holds more than capacity events; a push made
\* when count = capacity fails with EventQueueFull whatever the head
\* position and changes nothing, and a push succeeds again once a consumer
\* has advanced head.
SampleFill == FillEvent("Ask", 1, 1, 1, 2, 2, 2, 1, 1, 0, 0)
SampleOut == OutEvent("Bid", 1, 1, 1, 0, 0, "Filled")

Refused(r, queue) == r.status = "EventQueueFull" /\ r.queue = queue

C10_CountWithinCapacity ==
  /\ event_queue.count >= 0
  /\ event_queue.count <= EventCap
  /\ event_queue.count = EventCap =>
       /\ Refused(push_fill_event(event_queue, SampleFill), event_queue)
       /\ Refused(push_out_event(event_queue, SampleOut), event_queue)
  /\ event_queue.count < EventCap =>
       /\ push_fill_event(event_queue, SampleFill).status = "Ok"
       /\ push_out_event(event_queue, SampleOut).status = "Ok"
  /\ (last.op = "match" /\ last.status = "EventQueueFull") =>
       /\ event_queue = last.queue_before
       /\ bids = last.bids_before
       /\ asks = last.asks_before

C10_Witness ==
  /\ last.op = "match"
  /\ last.status = "EventQueueFull"
  /\ event_queue.count = EventCap
  /\ event_queue.head # 0

\* Number of pushes of a step that succeeded: its Fill push and each Out
\* push that was not refused.
PushesOf(step) ==
  1 + (IF step.bid_out = "Ok" THEN 1 ELSE 0)
    + (IF step.ask_out = "Ok" THEN 1 ELSE 0)

RECURSIVE SumPushes(_, _)
SumPushes(steps, k) ==
  IF k = 0 THEN 0 ELSE PushesOf(steps[k]) + SumPushes(steps, k - 1)

\* seq_num after one more push of each kind onto the queue.
PushCounts(queue) ==
  /\ \A r \in {push_fill_event(queue, SampleFill),
               push_out_event(queue, SampleOut)} :
       r.queue.seq_num = IF r.status = "Ok" THEN queue.seq_num + 1
                         ELSE queue.seq_num

\* C11: seq_num of the event log increases by exactly 1 on every
\* successful push (Fill or Out), is unchanged by a failed push, and never
\* decreases: every step of a match advances it by the number of its
\* pushes that succeeded, an invocation by the sum over its steps, and no
\* other operation changes it.
C11_SeqNumCountsPushes ==
  [][/\ event_queue'.seq_num >= event_queue.seq_num
     /\ PushCounts(event_queue')
     /\ \A step \in StepsOf(last') :
          step.queue_after.seq_num
            = step.queue_before.seq_num + PushesOf(step)
     /\ event_queue'.seq_num =
          IF last'.op = "match" /\ last'.status = "Ok"
          THEN event_queue.seq_num + SumPushes(last'.steps, Len(last'.steps))
          ELSE event_queue.seq_num]_vars

C11_Witness ==
  /\ last.op = "match"
  /\ last.status = "Ok"
  /\ Len(last.steps) = 2
  /\ \E step \in StepsOf(last) : step.bid_out = "EventQueueFull"
  /\ event_queue.seq_num = last.queue_before.seq_num + 3
  /\ last.queue_before.seq_num > 0

\* Sequence number process_events gives the i-th event (from 1) of a batch.
SeqOf(head_seq_num, i) == saturating_add(head_seq_num, i - 1, U64_MAX)

\* Sequence numbers of the records a call returned.
AppliedSeqs(result) ==
  {result.processed_fills[k].seq_num : k \in 1 .. Len(result.processed_fills)}
    \cup {result.processed_outs[k].seq_num :
            k \in 1 .. Len(result.processed_outs)}
    \cup {result.order_updates[k].seq_num :
            k \in 1 .. Len(result.order_updates)}

\* The call processed nothing and skipped the whole batch.
AllSkipped(result, events) ==
  /\ result.events_processed = 0
  /\ result.skipped = Len(events)
  /\ result.fills = 0
  /\ result.outs = 0
  /\ AppliedSeqs(result) = {}

\* The market had a cursor when the last call started.
Tracked(c) == c.market \in DOMAIN c.processor_before.cursors

CursorBefore(c) == c.processor_before.cursors[c.market]

\* C12: re-delivering events is a no-op: a process_events call on a
\* market whose cursor has last_processed = N applies no event with
\* seq_num <= N, a batch lying wholly at or below N is skipped whole and
\* leaves last_processed and events_processed as they were, and the batch
\* just processed, delivered again, is skipped whole.
C12_RedeliveryIsNoOp ==
  indexed.op = "process_events" =>
    /\ Tracked(indexed) =>
         /\ \A s \in AppliedSeqs(indexed.result) :
              s > CursorBefore(indexed).last_processed
         /\ (\A i \in 1 .. Len(indexed.events) :
               SeqOf(indexed.seq_num, i) <= CursorBefore(indexed).last_processed)
              => /\ AllSkipped(indexed.result, indexed.events)
                 /\ processor.cursors[indexed.market].last_processed
                      = CursorBefore(indexed).last_processed
                 /\ processor.cursors[indexed.market].events_processed
                      = CursorBefore(indexed).events_processed
    /\ \A slot \in SlotNumbers :
         AllSkipped(process_events(processor, indexed.market, indexed.events,
                                   indexed.seq_num, slot).result,
                    indexed.events)

\* The cursor of the last call's market as the batch starts: created on
\* first contact, its head updated.
CursorAtStart(c) ==
  entered(c.processor_before.cursors, c.market, c.seq_num)[c.market]

\* State of a per-event run over a cursor: the cursor, the counts and the
\* sequence numbers applied.
Run(c) == [c |-> c, processed |-> 0, skipped |-> 0, applied |-> {}]

Skip(r) == [r EXCEPT !.skipped = r.skipped + 1]

Apply(r, c, seq_num) ==
  [r EXCEPT !.c = c, !.processed = r.processed + 1,
            !.applied = r.applied \cup {seq_num}]

\* The batch protocol of the cursor: skip when should_process is false,
\* else apply and mark_processed.
ProtocolStep(r, seq_num) ==
  IF ~should_process(r.c, seq_num) THEN Skip(r)
  ELSE Apply(r, mark_processed(r.c, seq_num), seq_num)

RECURSIVE ProtocolRun(_, _, _, _)
ProtocolRun(r, events, head_seq_num, i) ==
  IF i > Len(events) THEN r
  ELSE ProtocolRun(ProtocolStep(r, SeqOf(head_seq_num, i)), events,
                   head_seq_num, i + 1)

\* The protocol with sequence number 0 applied while last_processed = 0.
Counted(c) ==
  [c EXCEPT !.events_processed = saturating_add(c.events_processed, 1, U64_MAX)]

LenientStep(r, seq_num) ==
  IF should_process(r.c, seq_num)
  THEN Apply(r, mark_processed(r.c, seq_num), seq_num)
  ELSE IF r.c.last_processed = 0 THEN Apply(r, Counted(r.c), seq_num)
  ELSE Skip(r)

RECURSIVE LenientRun(_, _, _, _)
LenientRun(r, events, head_seq_num, i) ==
  IF i > Len(events) THEN r
  ELSE LenientRun(LenientStep(r, SeqOf(head_seq_num, i)), events,
                  head_seq_num, i + 1)

\* The last call returned the partition of the run and left its cursor.
AgreesWith(c, cur, r) ==
  /\ c.result.events_processed = r.processed
  /\ c.result.skipped = r.skipped
  /\ c.result.fills + c.result.outs = r.processed
  /\ AppliedSeqs(c.result) = r.applied
  /\ cur.last_processed = r.c.last_processed
  /\ cur.events_processed = r.c.events_processed
  /\ cur.head_seq_num = r.c.head_seq_num

\* C13 (as stated): process_events skips an event exactly when
\* should_process(seq_num) is false and otherwise applies it and performs
\* mark_processed(seq_num); its processed/skipped partition and the final
\* cursor equal those of that per-event loop.
C13_BatchProtocol ==
  indexed.op = "process_events" =>
    AgreesWith(indexed, processor.cursors[indexed.market],
               ProtocolRun(Run(CursorAtStart(indexed)), indexed.events,
                           indexed.seq_num, 1))

\* C13 (amended): process_events skips an event exactly when
\* last_processed > 0 and should_process(seq_num) is false; otherwise it
\* applies the event, counts it and sets last_processed = seq_num; its
\* processed/skipped partition and the final cursor equal those of that
\* per-event loop.
C13_LenientProtocol ==
  indexed.op = "process_events" =>
    AgreesWith(indexed, processor.cursors[indexed.market],
               LenientRun(Run(CursorAtStart(indexed)), indexed.events,
                          indexed.seq_num, 1))

C13_Witness ==
  /\ indexed.op = "process_events"
  /\ Tracked(indexed)
  /\ CursorBefore(indexed).last_processed > 0
  /\ indexed.result.skipped > 0
  /\ indexed.result.events_processed > 0

\* C14: last_processed of every cursor never decreases over
\* process_events, mark_processed and update_head calls; mark_processed(s)
\* with s <= last_processed changes nothing, with s > last_processed it
\* sets last_processed = s and adds 1 to events_processed; only a reset
\* lowers last_processed.
C14_LastProcessedMonotonic ==
  [][/\ indexed'.op # "reset"
          => cursor'.last_processed >= cursor.last_processed
     /\ indexed'.op # "reset_cursor"
          => \A m \in DOMAIN processor.cursors \cap DOMAIN processor'.cursors :
               processor'.cursors[m].last_processed
                 >= processor.cursors[m].last_processed
     /\ indexed'.op = "mark_processed"
          => IF indexed'.seq_num <= cursor.last_processed
             THEN cursor' = cursor
             ELSE /\ cursor'.last_processed = indexed'.seq_num
                  /\ cursor'.events_processed = cursor.events_processed + 1
                  /\ cursor'.head_seq_num = cursor.head_seq_num
     /\ indexed'.op = "update_head"
          => /\ cursor'.last_processed = cursor.last_processed
             /\ cursor'.events_processed = cursor.events_processed]_vars

C14_Witness ==
  /\ indexed.op = "mark_processed"
  /\ indexed.seq_num < indexed.cursor_before.last_processed
  /\ indexed.seq_num > 0
  /\ indexed.cursor_before.events_processed = 2
  /\ cursor = indexed.cursor_before
  /\ 1 \in DOMAIN processor.cursors
  /\ processor.cursors[1].last_processed > 0

\* C15: on each side of the book leaf_count = 0 if and only if
\* root = SENTINEL, after any sequence of inserts and removals.
RootMarksEmpty(book) == (book.leaf_count = 0) <=> (book.root = SENTINEL)

SetUpSide(book) ==
  book.initialized =>
    /\ RootMarksEmpty(book)
    /\ Resting(book) = {} => book.root = SENTINEL

Rejected(r, error, b, a, queue) ==
  /\ r.status = error
  /\ r.bids = b
  /\ r.asks = a
  /\ r.queue = queue
  /\ r.steps = <<>>
  /\ r.match_count = 0

\* C16: a match invocation with limit = 0, or on a market that is not
\* active, fails with an error (InvalidQuantity, MarketNotActive) before
\* any mutation of the books or the event log, whatever they hold.
C16_RequiresLimitAndActive ==
  /\ Rejected(handler(market, bids, asks, event_queue, 0), "InvalidQuantity",
              bids, asks, event_queue)
  /\ ~market.active =>
       \A limit \in 1 .. MaxLimit :
         Rejected(handler(market, bids, asks, event_queue, limit),
                  "MarketNotActive", bids, asks, event_queue)
  /\ last.op = "match" =>
       /\ last.limit = 0 <=> last.status = "InvalidQuantity"
       /\ (last.limit > 0 /\ ~market.active)
            <=> last.status = "MarketNotActive"
       /\ last.status \in {"InvalidQuantity", "MarketNotActive"} =>
            /\ last.steps = <<>>
            /\ bids = last.bids_before
            /\ asks = last.asks_before
            /\ event_queue = last.queue_before

C16_Witness ==
  /\ last.op = "match"
  /\ last.status = "MarketNotActive"
  /\ last.limit > 0
  /\ ~NoCross(bids, asks)
  /\ handler(market, bids, asks, event_queue, 0).status = "InvalidQuantity"

\* Fill events among the logical positions of a queue.
FillsAt(queue, positions) ==
  {i \in positions : EventAt(queue, i).tag = EVENT_FILL}

\* C17: a match invocation runs at most limit match steps and ends; the
\* value it returns is the number of matches it executed, which equals the
\* number of Fill events it appended and lies in 0 .. limit.
C17_CountIsFills ==
  last.op = "match" =>
    /\ Len(last.steps) <= last.limit
    /\ last.status \in {"Ok", "InvalidQuantity", "MarketNotActive",
                        "EventQueueFull", "OrderNotFound"}
    /\ last.status = "Ok" =>
         /\ last.match_count = Len(last.steps)
         /\ last.match_count \in 0 .. last.limit
         /\ last.match_count
              = Cardinality(FillsAt(event_queue,
                                    Appended(last.queue_before, event_queue)))

C17_Witness ==
  /\ last.op = "match"
  /\ last.status = "Ok"
  /\ last.limit = MaxLimit
  /\ last.match_count = MaxLimit
  /\ event_queue.head # 0

\* Every cursor there is: the free-standing one and those of the processor.
AllCursors == {cursor} \cup {processor.cursors[m] : m \in DOMAIN processor.cursors}

PendingIsBacklog(c) ==
  /\ pending_count(c) = IF c.head_seq_num > c.last_processed
                         THEN c.head_seq_num - c.last_processed ELSE 0
  /\ has_pending(c) <=> pending_count(c) > 0
  /\ c.last_processed >= c.head_seq_num => pending_count(c) = 0

\* C18: in every cursor state pending_count() is head_seq_num -
\* last_processed, saturating at 0, and has_pending() is true exactly when
\* pending_count() > 0; once everything up to the head is processed, and
\* after process_events has gone through a batch of at least one event,
\* pending_count() = 0.
C18_PendingCount ==
  /\ \A c \in AllCursors : PendingIsBacklog(c)
  /\ (indexed.op = "process_events" /\ Len(indexed.events) > 0) =>
       /\ pending_count(processor.cursors[indexed.market]) = 0
       /\ ~has_pending(processor.cursors[indexed.market])
  /\ (indexed.op = "mark_processed"
        /\ indexed.seq_num >= cursor.head_seq_num) =>
       pending_count(cursor) = 0

C18_Witness ==
  /\ indexed.op = "mark_processed"
  /\ cursor.last_processed > cursor.head_seq_num
  /\ cursor.head_seq_num > 0
  /\ has_pending(indexed.cursor_before)
  /\ pending_count(indexed.cursor_before) = 1
  /\ 1 \in DOMAIN processor.cursors
  /\ processor.cursors[1].events_processed > 0


\* Where a submit call stands with respect to its retry bound: no more
\* attempts than max_retries, each attempt but the last one failed, a
\* returned Confirmed or Dropped belongs to the first accepted attempt, and
\* the call has returned Failed with retries == max_retries exactly when
\* max_retries attempts have failed.
RetriesBounded ==
  /\ submission.attempts <= submitter.max_retries
  /\ submission.retries <= submitter.max_retries
  /\ submission.pc \in {"try_submit", "wait_for_confirmation"}
       => submission.attempts = submission.retries + 1
  /\ submission.pc = "sleep" => submission.attempts = submission.retries
  /\ submission.pc # "done" => submission.result = NoResult
  /\ (submission.pc = "done"
        /\ submission.result.kind \in {"Confirmed", "Dropped"})
       => /\ submission.attempts = submission.retries + 1
          /\ submission.retries < submitter.max_retries
  /\ (submission.pc # "idle" /\ submission.retries = submitter.max_retries)
       <=> (submission.pc = "done" /\ submission.result.kind = "Failed")
  /\ (submission.pc = "done" /\ submission.result.kind = "Failed")
       => /\ submission.result.retries = submitter.max_retries
          /\ submission.attempts = submitter.max_retries

\* An accepted attempt ends the call whatever the confirmation says.
ConfirmationEnds ==
  submission.pc = "wait_for_confirmation"
    => /\ submission'.pc = "done"
       /\ submission'.result.kind \in {"Confirmed", "Dropped"}
       /\ submission'.attempts = submission.attempts

\* C19: submit bounds its retries: it always terminates after at most
\* max_retries submission attempts, returns Confirmed or Dropped for the
\* first attempt that is accepted (a failed confirmation is not retried),
\* and returns Failed with retries == max_retries once max_retries attempts
\* have failed.
C19_SubmitBoundsRetries ==
  /\ []RetriesBounded
  /\ [][ConfirmationEnds]_vars
  /\ <>(submission.pc = "done")

\* A submit call that failed max_retries > 1 times, sleeping in between.
C19_Witness ==
  /\ submission.pc = "done"
  /\ submission.result.kind = "Failed"
  /\ submitter.max_retries = MaxRetries
  /\ submission.attempts = MaxRetries
  /\ Len(submission.slept) = MaxRetries - 1


\* min(initial_backoff_ms * backoff_multiplier^k, max_backoff_ms), in whole
\* milliseconds: v is the cap, or the product rounded down, whichever is
\* smaller.
IsCappedExponential(config, k, v) ==
  LET num == powi(config.backoff_multiplier.num, k)
      den == powi(config.backoff_multiplier.den, k)
      product == config.initial_backoff_ms * num
  IN  /\ v <= config.max_backoff_ms
      /\ v * den <= product
      /\ v < config.max_backoff_ms => product < (v + 1) * den

\* The delays of the call so far, the one being slept included.
Delays ==
  IF submission.pc = "sleep"
  THEN Append(submission.slept, submission.backoff)
  ELSE submission.slept

\* calculate_backoff is the capped exponential of its retry number.
CalculateBackoffIsCapped ==
  \A k \in 0 .. MaxRetries :
    IsCappedExponential(submitter, k, calculate_backoff(submitter, k))

NoNewCycle ==
  service.stop_requested
    => ~(service.pc # "detect" /\ service'.pc = "detect")

\* After a stop request a run that has returned leaves the flag down.
StoppedAfterReturn ==
  (service.stop_requested /\ service.pc = "returned")
    => ~is_running(service)

\* C21: stop() is the crank's stop signal: once stop() has been called,
\* run() starts no new poll cycle and returns after the cycle in progress,
\* for every interleaving of stop() with run(), and is_running() is false
\* afterwards.
C21_StopEndsRun ==
  /\ [][NoNewCycle]_vars
  /\ []StoppedAfterReturn
  /\ (service.stop_requested ~> service.pc = "returned")


\* A snapshot with a best bid and a best ask, the bid at or above the ask.
SnapshotCrossed(snapshot) ==
  /\ "missing" \notin DOMAIN snapshot
  /\ snapshot.bids # <<>>
  /\ snapshot.asks # <<>>
  /\ snapshot.bids[1].price >= snapshot.asks[1].price

\* The CrossInfo values of the explored prices.
CrossInfos ==
  {CrossInfo(1, b, a, 1, 1) : b \in SnapshotPrices, a \in SnapshotPrices}

\* spread and is_crossed say what the claim says of them.
SpreadAgrees(info) ==
  /\ is_crossed(info) <=> info.best_bid >= info.best_ask
  /\ spread(info) = info.best_ask - info.best_bid
  /\ spread(info) <= 0 <=> is_crossed(info)

\* C25: detect_cross returns Some(CrossInfo) exactly when the market's
\* snapshot has a best bid and a best ask with best_bid >= best_ask, and
\* for every CrossInfo is_crossed() is true exactly when
\* best_bid >= best_ask and spread() equals best_ask - best_bid, which is
\* <= 0 exactly when the book is crossed.
C25_DetectCross ==
  /\ detect_cross(1, service.snapshot) # <<>>
       <=> SnapshotCrossed(service.snapshot)
  /\ \A i \in 1 .. Len(detect_cross(1, service.snapshot)) :
       SpreadAgrees(detect_cross(1, service.snapshot)[i])
  /\ \A info \in CrossInfos : SpreadAgrees(info)

\* C25 without the spread: detection and is_crossed alone.
DetectsExactlyCrossed ==
  /\ detect_cross(1, service.snapshot) # <<>>
       <=> SnapshotCrossed(service.snapshot)
  /\ \A info \in CrossInfos :
       is_crossed(info) <=> info.best_bid >= info.best_ask

\* C25 for prices below 2^63: the spread is as claimed.
SpreadAgreesBelowSignBit ==
  \A info \in CrossInfos :
    (info.best_bid <= I64_MAX /\ info.best_ask <= I64_MAX)
      => SpreadAgrees(info)


\* Connections in every state of authentication; owner 0 is None.
ConnectionValues ==
  {[Connection(1) EXCEPT !.authenticated = a, !.owner = o] :
     a \in BOOLEAN, o \in {0, 1, 2}}

ChannelValues == {Channel(type, a) : type \in ChannelTypes, a \in {1, 2}}

\* Connection c is authenticated as the owner of an orders channel.
AuthenticatedAs(c, channel) ==
  c.authenticated /\ c.owner # 0 /\ c.owner = channel.address

\* No orders channel among the subscriptions of a connection that is not
\* authenticated as its owner, in the connection or in the manager.
PrivateSubscriptionsOwned ==
  /\ \A t \in 1 .. Len(connections) :
       \A channel \in connections[t].subscriptions :
         channel.type = "orders" => AuthenticatedAs(connections[t], channel)
  /\ \A channel \in DOMAIN channels :
       channel.type = "orders"
         => \A id \in channels[channel] :
              \E t \in 1 .. Len(connections) :
                /\ connections[t].id = id
                /\ AuthenticatedAs(connections[t], channel)

\* C22: private channels require authentication: can_subscribe(channel) is
\* true for every public channel, and for an orders channel exactly when
\* the connection is authenticated and its authenticated owner equals the
\* channel's owner; hence in every reachable server state no connection is
\* subscribed, in its own subscription set or in the channel manager, to
\* an orders channel of an owner it is not authenticated as.
C22_PrivateChannelsRequireAuth ==
  /\ \A c \in ConnectionValues, channel \in ChannelValues :
       can_subscribe(c, channel)
         <=> (channel.type # "orders" \/ AuthenticatedAs(c, channel))
  /\ PrivateSubscriptionsOwned

\* A connection with a public subscription was refused an orders channel,
\* with a token or without.
C22_Witness ==
  \E t \in 1 .. Len(connections) :
    /\ connections[t].request.type = "subscribe"
    /\ connections[t].request.channel.type = "orders"
    /\ connections[t].result \in
         {"Authentication required for this channel",
          "Authentication not implemented"}
    /\ connections[t].subscriptions # {}
    /\ channels # <<>>


\* Connection t takes a request of the given type in this step.
Receives(t, type) ==
  /\ t <= Len(connections)
  /\ connections[t].pc = "receive"
  /\ connections'[t] # connections[t]
  /\ connections'[t].request.type = type

\* The request connection t takes in this step is rejected with error e:
\* only the error is sent, and nothing is registered or removed.
RejectedWith(t, e) ==
  /\ connections'[t].result = e
  /\ connections'[t].pc = "receive"
  /\ connections'[t].sent = <<error_message("ERROR", e)>>
  /\ connections'[t].subscriptions = connections[t].subscriptions
  /\ channels' = channels

\* A request for an already subscribed, or a not subscribed, channel.
DuplicateRejected ==
  \A t \in 1 .. MaxConnections :
    /\ (/\ Receives(t, "subscribe")
        /\ parse(connections'[t].request.channel) # <<>>
        /\ parse(connections'[t].request.channel)[1]
             \in connections[t].subscriptions)
         => RejectedWith(t, "Already subscribed")
    /\ (/\ Receives(t, "unsubscribe")
        /\ parse(connections'[t].request.channel) # <<>>
        /\ parse(connections'[t].request.channel)[1]
             \notin connections[t].subscriptions)
         => RejectedWith(t, "Not subscribed")

\* C23: a subscribe request for a channel the connection is already
\* subscribed to is rejected with an 'Already subscribed' error, and an
\* unsubscribe request for a channel it is not subscribed to is rejected
\* with a 'Not subscribed' error; a rejected request sends no confirmation
\* or snapshot and leaves the connection's subscriptions and the channel
\* manager unchanged.
C23_DuplicatesRejected == [][DuplicateRejected]_vars

\* One connection was refused a second subscription to its channel while
\* another was refused an unsubscription.
C23_Witness ==
  \E t, u \in 1 .. Len(connections) :
    /\ connections[t].result = "Already subscribed"
    /\ connections[t].request.channel.type = "book"
    /\ Channel("book", 1) \in connections[t].subscriptions
    /\ connections[t].id \in channels[Channel("book", 1)]
    /\ connections[u].result = "Not subscribed"


\* Connection c is registered for the channel of its request, in its own
\* set and in the manager.
Registered(c) ==
  LET channel == parse(c.request.channel)[1]
  IN  /\ channel \in c.subscriptions
      /\ channel \in DOMAIN channels
      /\ c.id \in channels[channel]

\* Where a subscribe that passed its checks stands: registered in the
\* connection, then in the manager, then the confirmation, then the
\* snapshot.
SubscribeInOrder(c) ==
  /\ c.pc = "channels.subscribe"
       => /\ parse(c.request.channel)[1] \in c.subscriptions
          /\ c.sent = <<>>
  /\ c.pc = "get_channel_snapshot"
       => /\ Registered(c)
          /\ c.sent = <<subscribed(c.request.channel)>>
  /\ (c.pc = "receive" /\ c.request.type = "subscribe" /\ c.result = "Ok")
       => /\ Registered(c)
          /\ c.sent = <<subscribed(c.request.channel),
                        snapshot_message(c.request.channel)>>

\* C24: a successful subscribe registers the subscription in the
\* connection and in the channel manager and then sends the client exactly
\* two messages in this order: the Subscribed confirmation, then the
\* channel's initial Snapshot.
C24_SubscribeConfirmsThenSnapshots ==
  \A t \in 1 .. Len(connections) : SubscribeInOrder(connections[t])

\* A subscribe has succeeded while another connection holds the channel.
C24_Witness ==
  \E t, u \in 1 .. Len(connections) :
    /\ t # u
    /\ connections[t].request.type = "subscribe"
    /\ connections[t].result = "Ok"
    /\ Len(connections[t].sent) = 2
    /\ connections[t].subscriptions \cap connections[u].subscriptions # {}


\* C26: connection ids are unique: every call of next_connection_id,
\* including concurrent calls from different connection tasks, returns a
\* value greater than and different from every value returned before, so
\* no two connections ever share an id.
C26_ConnectionIdsUnique ==
  /\ \A t, u \in 1 .. Len(connections) :
       t < u => connections[t].id < connections[u].id
  /\ \A t \in 1 .. Len(connections) :
       connections[t].id < CONNECTION_ID_COUNTER

\* Two connections have been opened, one of them already closed.
C26_Witness ==
  /\ Len(connections) >= 2
  /\ connections[1].pc = "closed"
  /\ connections[2].pc = "receive"

\* The channels the manager lists connection id under.
ListedUnder(id) == {channel \in DOMAIN channels : id \in channels[channel]}

\* The channel of the request connection c is in the middle of, if any.
InFlight(c) ==
  IF c.pc \in {"channels.subscribe", "channels.unsubscribe"}
  THEN {parse(c.request.channel)[1]}
  ELSE {}

\* The manager and the connections agree: a connection between two
\* requests is listed under exactly its own subscriptions, one in the
\* middle of a request under those but for the channel of the request, a
\* closed one nowhere; every listed id is a live connection's, and no
\* channel is kept without subscribers.
RegistryConsistent ==
  /\ \A t \in 1 .. Len(connections) :
       LET c == connections[t]
       IN  /\ c.pc \in {"receive", "get_channel_snapshot"}
                => ListedUnder(c.id) = c.subscriptions
           /\ c.pc = "closed" => ListedUnder(c.id) = {}
           /\ ListedUnder(c.id) \ InFlight(c) = c.subscriptions \ InFlight(c)
                \/ c.pc \in {"channels.unsubscribe_all", "closed"}
  /\ \A channel \in DOMAIN channels :
       /\ channels[channel] # {}
       /\ \A id \in channels[channel] :
            \E t \in 1 .. Len(connections) :
              connections[t].id = id /\ connections[t].pc # "closed"

\* C30: the server's subscription registry stays consistent with its
\* connections: after any sequence of subscribe, unsubscribe and
\* disconnect handling on any number of concurrent connections, the
\* channel manager lists connection id c under channel ch exactly when c
\* is a live connection whose own subscription set contains ch; once a
\* connection has closed no channel lists its id, and the manager keeps no
\* channel with zero subscribers.
C30_RegistryConsistent == RegistryConsistent

\* A connection has closed and another has unsubscribed from a channel,
\* while a subscription is still held.
C30_Witness ==
  \E t, u \in 1 .. Len(connections) :
    /\ connections[t].pc = "closed"
    /\ connections[u].pc = "receive"
    /\ connections[u].request.type = "unsubscribe"
    /\ connections[u].result = "Ok"
    /\ connections[u].subscriptions # {}
    /\ DOMAIN channels = connections[u].subscriptions


\* The queue a step of an invocation started from.
QueueBefore(o, k) ==
  IF k = 1 THEN o.queue_before ELSE o.steps[k - 1].queue_after

\* The events of a step: appended behind those that were there, the Fill
\* of the match first, then the Out of the bid if it was pushed, then the
\* Out of the ask if it was pushed, with one sequence number each.
StepInOrder(step) ==
  LET before == step.queue_before
      after == step.queue_after
      n == before.count
      bid_outs == IF step.bid_out = "Ok" THEN 1 ELSE 0
  IN  /\ after.head = before.head
      /\ \A i \in 0 .. (n - 1) : EventAt(after, i) = EventAt(before, i)
      /\ after.count = n + PushesOf(step)
      /\ after.seq_num = before.seq_num + PushesOf(step)
      /\ EventAt(after, n).tag = EVENT_FILL
      /\ EventAt(after, n).maker_order_id = step.result.bid_order_id
      /\ EventAt(after, n).taker_order_id = step.result.ask_order_id
      /\ step.bid_out = "Ok"
           => /\ step.result.bid_remaining = 0
              /\ EventAt(after, n + 1).tag = EVENT_OUT
              /\ EventAt(after, n + 1).side = "Bid"
              /\ EventAt(after, n + 1).order_id = step.result.bid_order_id
      /\ step.ask_out = "Ok"
           => /\ step.result.ask_remaining = 0
              /\ EventAt(after, n + 1 + bid_outs).tag = EVENT_OUT
              /\ EventAt(after, n + 1 + bid_outs).side = "Ask"
              /\ EventAt(after, n + 1 + bid_outs).order_id
                   = step.result.ask_order_id

\* C27: events are appended in execution order with consecutive sequence
\* numbers: for each match its Fill event precedes the Out events of the
\* orders that match filled (the bid's Out before the ask's Out), and every
\* event of the k-th match of an invocation precedes every event of the
\* (k+1)-th match.
C27_EventsInExecutionOrder ==
  (last.op = "match" /\ last.status = "Ok") =>
    /\ \A k \in 1 .. Len(last.steps) :
         /\ last.steps[k].queue_before = QueueBefore(last, k)
         /\ StepInOrder(last.steps[k])
    /\ event_queue = QueueBefore(last, Len(last.steps) + 1)

\* Two matches of one invocation, the first with an Out event, that fill
\* the queue.
C27_Witness ==
  /\ last.op = "match"
  /\ last.status = "Ok"
  /\ Len(last.steps) = 2
  /\ last.steps[1].bid_out = "Ok" \/ last.steps[1].ask_out = "Ok"
  /\ event_queue.count = EventCap

\* A match whose bid and ask were both filled: Fill, Out, Out.
BothOut ==
  /\ last.op = "match"
  /\ last.status = "Ok"
  /\ Len(last.steps) = 1
  /\ last.steps[1].bid_out = "Ok"
  /\ last.steps[1].ask_out = "Ok"
  /\ last.queue_before.head # 0

\* The slots of a book on its free list, following next_free from the
\* head for at most as many links as there are slots.
RECURSIVE FreeChain(_, _, _)
FreeChain(book, slot, links) ==
  IF slot = SENTINEL \/ links = 0 THEN {}
  ELSE IF slot \notin Slots THEN {slot}
  ELSE {slot} \cup FreeChain(book, book.nodes[slot].next_free, links - 1)

RECURSIVE ChainLength(_, _, _)
ChainLength(book, slot, links) ==
  IF slot = SENTINEL \/ links = 0 THEN 0
  ELSE IF slot \notin Slots THEN 1
  ELSE 1 + ChainLength(book, book.nodes[slot].next_free, links - 1)

FreeSlots(book) == {i \in Slots : book.nodes[i].tag = TAG_FREE}

\* The free list is a chain without a cycle, ending in SENTINEL, of
\* exactly the slots tagged Free.
FreeListIsChain(book) ==
  /\ FreeChain(book, book.free_list_head, ArenaCap + 1) = FreeSlots(book)
  /\ ChainLength(book, book.free_list_head, ArenaCap + 1)
       = Cardinality(FreeSlots(book))

\* What remove_order does to a book when it finds the order.
RemovalPushes(book, order_id) ==
  LET r == remove_order(book, order_id)
      i == find_slot(book, order_id, 0)
  IN  r.status = "Ok"
        => /\ book.nodes[i].tag = TAG_LEAF
           /\ r.book.nodes[i].tag = TAG_FREE
           /\ r.book.nodes[i].next_free = book.free_list_head
           /\ r.book.free_list_head = i
           /\ r.book.leaf_count = book.leaf_count - 1
           /\ \A j \in Slots \ {i} : r.book.nodes[j] = book.nodes[j]
           /\ FreeSlots(r.book) = FreeSlots(book) \cup {i}
           /\ FreeListIsChain(r.book)

FreeListKept(book) ==
  /\ \A order_id \in RestingKeys(book) : RemovalPushes(book, order_id)
  /\ book.initialized => FreeListIsChain(book)
  /\ book.leaf_count = Cardinality(Resting(book))

\* A slot once used stays in the arena.
ArenaKept(before, after) ==
  \A i \in Slots :
    before.nodes[i].tag # TAG_UNINIT => after.nodes[i].tag # TAG_UNINIT

\* C28: removing a leaf always pushes its slot onto the free list and never
\* shrinks the arena: the slot is tagged Free, its next_free is set to the
\* previous free_list_head, free_list_head becomes the slot, and leaf_count
\* decreases by exactly 1; after any sequence of removals the free list is
\* an acyclic chain that contains exactly the removed slots and no resting
\* leaf.
C28_RemovalPushesFreeList ==
  /\ []FreeListKept(bids)
  /\ []FreeListKept(asks)
  /\ [][ArenaKept(bids, bids') /\ ArenaKept(asks, asks')]_vars

\* Two slots of a side have been removed and chained while a leaf rests.
C28_Witness ==
  \E side \in Sides :
    /\ last.op = "cancel"
    /\ last.status = "Ok"
    /\ Cardinality(FreeSlots(BookOf(side))) = 2
    /\ BookOf(side).leaf_count = 1
    /\ BookOf(side).nodes[BookOf(side).free_list_head].next_free # SENTINEL

\* What a push does to a queue: refused when full, else the event lands
\* at the logical position count and every event before it stays.
PushAtTail(queue, r, event) ==
  LET tail == (queue.head + queue.count) % EventCap
  IN  IF queue.count = EventCap THEN Refused(r, queue)
      ELSE /\ r.status = "Ok"
           /\ r.queue.head = queue.head
           /\ r.queue.events[tail] = event
           /\ \A slot \in EventSlots \ {tail} :
                r.queue.events[slot] = queue.events[slot]
           /\ \A i \in 0 .. (queue.count - 1) :
                /\ (queue.head + i) % EventCap # tail
                /\ EventAt(r.queue, i) = EventAt(queue, i)
           /\ EventAt(r.queue, queue.count) = event

\* C29: each pushed event is written at slot tail = (head + count) mod
\* capacity, so the record at logical position i from head lives at
\* (head + i) mod capacity and a push never overwrites an event that has
\* not been consumed, also after the write position has wrapped around the
\* end of the buffer.
C29_PushWritesAtTail ==
  /\ event_queue.head \in EventSlots
  /\ PushAtTail(event_queue, push_fill_event(event_queue, SampleFill),
                SampleFill)
  /\ PushAtTail(event_queue, push_out_event(event_queue, SampleOut),
                SampleOut)
  /\ (last.op = "match" /\ last.status = "Ok") =>
       \A step \in StepsOf(last) :
         \A i \in 0 .. (step.queue_before.count - 1) :
           EventAt(step.queue_after, i) = EventAt(step.queue_before, i)

\* A match appended behind unconsumed events, its events wrapping around
\* the end of the buffer.
C29_Witness ==
  /\ last.op = "match"
  /\ last.status = "Ok"
  /\ Len(last.steps) >= 1
  /\ last.queue_before.count > 0
  /\ last.queue_before.head + last.queue_before.count >= EventCap
  /\ event_queue.count > last.queue_before.count


\* Number of resting orders of the two sides.
RestingTotal(b, a) == Cardinality(Resting(b)) + Cardinality(Resting(a))

\* A step fills one of its two orders at least, and each order it fills
\* leaves the book.
StepFills(step) ==
  /\ step.result.bid_remaining = 0 \/ step.result.ask_remaining = 0
  /\ step.result.bid_remaining = 0
       => step.result.bid_order_id \notin RestingKeys(step.bids_after)
  /\ step.result.ask_remaining = 0
       => step.result.ask_order_id \notin RestingKeys(step.asks_after)
  /\ RestingTotal(step.bids_after, step.asks_after)
       < RestingTotal(step.bids_before, step.asks_before)

\* Every match of the last invocation fills and removes an order, so the
\* invocation executed no more matches than orders were resting.
MatchesFill ==
  (last.op = "match" /\ last.status = "Ok") =>
    /\ \A step \in StepsOf(last) : StepFills(step)
    /\ RestingTotal(bids, asks) + Len(last.steps)
         <= RestingTotal(last.bids_before, last.asks_before)

\* An invocation changes the number of resting orders only downwards, by
\* at least the number of its matches.
MatchesShrinkBook ==
  (last'.op = "match" /\ last' # last) =>
    RestingTotal(bids', asks') + (IF last'.status = "Ok"
                                 THEN Len(last'.steps) ELSE 0)
      <= RestingTotal(bids, asks)

\* C31: every executed match fully fills, and therefore removes, at least
\* one of the two matched orders, so the total number of resting orders
\* strictly decreases with each match and repeated match invocations on a
\* book that receives no new orders eventually stop executing matches.
C31_MatchesShrinkBook ==
  /\ []MatchesFill
  /\ [][MatchesShrinkBook]_vars

\* An invocation of two matches, one filling its bid only and one its ask
\* only, that left an order resting.
C31_Witness ==
  /\ last.op = "match"
  /\ last.status = "Ok"
  /\ Len(last.steps) = 2
  /\ \E step \in StepsOf(last) :
       step.result.bid_remaining = 0 /\ step.result.ask_remaining > 0
  /\ \E step \in StepsOf(last) :
       step.result.bid_remaining > 0 /\ step.result.ask_remaining = 0
  /\ RestingTotal(bids, asks) > 0


\* A removal or update of order_id on the book succeeds exactly when a
\* resting leaf has that id, and a refusal leaves the book as it was.
FoundIffResting(book, order_id, r) ==
  /\ r.status = (IF order_id \in RestingKeys(book)
                 THEN "Ok" ELSE "OrderNotFound")
  /\ r.status = "OrderNotFound" => r.book = book

FindsResting(book) ==
  \A order_id \in KnownIds(book) \cup {0} :
    /\ FoundIffResting(book, order_id, remove_order(book, order_id))
    /\ \A new_quantity \in UpdatedQuantities :
         FoundIffResting(book, order_id,
                         update_order_quantity(book, order_id, new_quantity))

\* C32: remove and update_quantity succeed for every order that is resting
\* in the book and return OrderNotFound, changing nothing, exactly when no
\* resting leaf has the given order id.
C32_FindsEveryRestingOrder == FindsResting(bids) /\ FindsResting(asks)

\* The same for the orders resting inside the window of 2 * leaf_count
\* slots that the scans visit, and for ids that are not resting.
FindsRestingInWindow(book) ==
  \A order_id \in KnownIds(book) \cup {0} :
    (order_id \in RestingKeys(book) =>
       \E i \in Resting(book) :
         book.nodes[i].key = order_id /\ i < max_nodes(book))
    => /\ FoundIffResting(book, order_id, remove_order(book, order_id))
       /\ \A new_quantity \in UpdatedQuantities :
            FoundIffResting(book, order_id,
                            update_order_quantity(book, order_id,
                                                  new_quantity))

FindsEveryOrderInWindow ==
  FindsRestingInWindow(bids) /\ FindsRestingInWindow(asks)


\* after is before with nothing but the quantity of the leaf in slot i
\* changed.
OnlyQuantityOf(before, after, i) ==
  after = [before EXCEPT !.nodes[i].quantity = after.nodes[i].quantity]

\* The best order of the side is the same order, whatever its quantity.
SameBest(before, after, is_bids) ==
  /\ get_best_order(after, is_bids).some
       = get_best_order(before, is_bids).some
  /\ get_best_order(after, is_bids).key = get_best_order(before, is_bids).key
  /\ get_best_order(after, is_bids).owner
       = get_best_order(before, is_bids).owner

\* A successful update_quantity of order_id writes new_quantity into the
\* leaf with that id and nothing else.
UpdateFrame(book, is_bids) ==
  \A order_id \in KnownIds(book), new_quantity \in UpdatedQuantities :
    LET r == update_order_quantity(book, order_id, new_quantity)
    IN  r.status = "Ok" =>
          /\ \E i \in Resting(book) :
               /\ book.nodes[i].key = order_id
               /\ r.book.nodes[i].quantity = new_quantity
               /\ OnlyQuantityOf(book, r.book, i)
          /\ Resting(r.book) = Resting(book)
          /\ SameBest(book, r.book, is_bids)

\* A step of update_quantity changes one side at most, and of that side
\* the quantity of one resting leaf.
UpdateStepFrame ==
  last'.op = "update" =>
    /\ bids' = bids \/ asks' = asks
    /\ bids' = bids \/ \E i \in Resting(bids) : OnlyQuantityOf(bids, bids', i)
    /\ asks' = asks \/ \E i \in Resting(asks) : OnlyQuantityOf(asks, asks', i)
    /\ SameBest(bids, bids', TRUE)
    /\ SameBest(asks, asks', FALSE)

\* C33: update_quantity mutates only the remaining_quantity of the
\* addressed leaf: its key, owner, client_order_id and slot, the header
\* fields leaf_count, root and free_list_head, and every other node are
\* unchanged, so the relative order of resting orders and the identity of
\* the result of best(side) are unaffected.
C33_UpdateWritesQuantityOnly ==
  /\ [](UpdateFrame(bids, TRUE) /\ UpdateFrame(asks, FALSE))
  /\ [][UpdateStepFrame]_vars

\* An update that succeeded on a side where another order is resting and
\* keeps its quantity.
C33_Witness ==
  /\ last.op = "update"
  /\ last.status = "Ok"
  /\ \E i, j \in Resting(bids) :
       /\ bids.nodes[i].quantity \in UpdatedQuantities
       /\ bids.nodes[j].quantity \in IndexQuantities
       /\ get_best_order(bids, TRUE).key = bids.nodes[i].key


\* Whether the bid of the matched pair was inserted before its ask.
BidIsOlder(step) ==
  OrderSeq(step.result.bid_order_id, TRUE)
    < OrderSeq(step.result.ask_order_id, FALSE)

\* The Fill event of the step names the older order as maker and the newer
\* one, with its side, as taker.
MakerIsOlder(step) ==
  IF BidIsOlder(step)
  THEN /\ FillOf(step).maker_order_id = step.result.bid_order_id
       /\ FillOf(step).maker = step.result.bid_owner
       /\ FillOf(step).maker_client_order_id = step.result.bid_client_order_id
       /\ FillOf(step).taker_order_id = step.result.ask_order_id
       /\ FillOf(step).taker = step.result.ask_owner
       /\ FillOf(step).taker_client_order_id = step.result.ask_client_order_id
       /\ FillOf(step).taker_side = "Ask"
  ELSE /\ FillOf(step).maker_order_id = step.result.ask_order_id
       /\ FillOf(step).maker = step.result.ask_owner
       /\ FillOf(step).maker_client_order_id = step.result.ask_client_order_id
       /\ FillOf(step).taker_order_id = step.result.bid_order_id
       /\ FillOf(step).taker = step.result.bid_owner
       /\ FillOf(step).taker_client_order_id = step.result.bid_client_order_id
       /\ FillOf(step).taker_side = "Bid"

\* C34: in every Fill event the maker fields identify the older, resting
\* order of the matched pair, the taker fields identify the newer order
\* that caused the match, and taker_side is the side of the newer order.
C34_MakerIsOlderOrder ==
  (last.op = "match" /\ last.status = "Ok") =>
    \A step \in StepsOf(last) : MakerIsOlder(step)

\* The same for the matches whose bid is the older order.
MakerIsOlderWhenBidFirst ==
  (last.op = "match" /\ last.status = "Ok") =>
    \A step \in StepsOf(last) : BidIsOlder(step) => MakerIsOlder(step)


\* Every node but those holding the order keeps its content, and with it
\* every other resting order its slot.
OthersKept(before, after, order_id) ==
  \A j \in Slots :
    before.nodes[j].key # order_id \/ before.nodes[j].tag # TAG_LEAF
      => after.nodes[j] = before.nodes[j]

\* A step writes to the leaf of its bid, the leaf of its ask and the three
\* header fields of the two sides.
StepFrame(step) ==
  /\ OthersKept(step.bids_before, step.bids_after, step.result.bid_order_id)
  /\ OthersKept(step.asks_before, step.asks_after, step.result.ask_order_id)
  /\ step.bids_after.initialized = step.bids_before.initialized
  /\ step.asks_after.initialized = step.asks_before.initialized
  /\ step.result.bid_order_id = get_best_order(step.bids_before, TRUE).key
  /\ step.result.ask_order_id = get_best_order(step.asks_before, FALSE).key

\* C35: a match touches only the matched pair: one executed match changes
\* nothing in the books except the best bid leaf, the best ask leaf and the
\* header fields leaf_count, free_list_head and root of the two sides;
\* every other resting order keeps its key, owner, client_order_id,
\* remaining quantity and slot.
C35_MatchTouchesOnlyPair ==
  (last.op = "match" /\ last.status = "Ok") =>
    /\ \A step \in StepsOf(last) : StepFrame(step)
    /\ Len(last.steps) = 0 => bids = last.bids_before /\ asks = last.asks_before

\* A match that removed its bid from the lower of two occupied bid slots
\* while another ask was resting too.
C35_Witness ==
  /\ last.op = "match"
  /\ last.status = "Ok"
  /\ \E step \in StepsOf(last) :
       /\ step.result.bid_remaining = 0
       /\ \E i, j \in Resting(step.bids_before) :
            /\ i < j
            /\ step.bids_before.nodes[i].key = step.result.bid_order_id
            /\ j \in Resting(step.bids_after)
       /\ Cardinality(Resting(step.asks_before)) = 2


\* The calls on the processor that address one market.
MarketCalls == {"process_events", "reset_cursor", "remove_market"}

\* The cursors of the markets other than the one the last call addressed
\* are there as before, with the same content.
OtherCursorsKept ==
  indexed.op \in MarketCalls =>
    \A m \in MarketKeys \ {indexed.market} :
      /\ m \in DOMAIN processor.cursors
           <=> m \in DOMAIN indexed.processor_before.cursors
      /\ m \in DOMAIN processor.cursors
           => processor.cursors[m] = indexed.processor_before.cursors[m]

\* process_events leaves a cursor for its market, a new one at the batch's
\* head if the market had none; the other calls create none.
CreatedOnContact ==
  /\ indexed.op = "process_events" =>
       /\ indexed.market \in DOMAIN processor.cursors
       /\ indexed.market \notin DOMAIN indexed.processor_before.cursors =>
            /\ processor.cursors[indexed.market].head_seq_num
                 = indexed.seq_num
            /\ processor.cursors[indexed.market].events_processed
                 = indexed.result.events_processed
  /\ indexed.op \in {"reset_cursor", "remove_market"} =>
       DOMAIN processor.cursors \subseteq
         DOMAIN indexed.processor_before.cursors
  /\ indexed.op = "none" => DOMAIN processor.cursors = {}

\* C36: cursors are per market: a cursor is created on first contact with
\* its market, and process_events, reset_cursor and remove_market for one
\* market never change the head_seq_num, last_processed or
\* events_processed of any other market's cursor.
C36_CursorsPerMarket == OtherCursorsKept /\ CreatedOnContact

\* A reset of one market's cursor, which had processed events, while the
\* other market's cursor has processed events too.
C36_Witness ==
  /\ indexed.op = "reset_cursor"
  /\ indexed.market = 1
  /\ 1 \in DOMAIN indexed.processor_before.cursors
  /\ indexed.processor_before.cursors[1].events_processed > 0
  /\ processor.cursors[1].events_processed = 0
  /\ 2 \in DOMAIN processor.cursors
  /\ processor.cursors[2].events_processed > 0
  /\ processor.cursors[2].last_processed > 0


\* What the last call added to a metric.
MetricGrowth(metric) ==
  processor.metrics[metric] - indexed.processor_before.metrics[metric]

\* The fill and out metrics grow by the counts of the returned result, and
\* events_processed is their sum.
FillsAndOutsCounted ==
  /\ indexed.op = "process_events" =>
       /\ MetricGrowth("fills_processed") = indexed.result.fills
       /\ MetricGrowth("outs_processed") = indexed.result.outs
  /\ processor.metrics.events_processed
       = processor.metrics.fills_processed + processor.metrics.outs_processed

\* events_skipped grows by the skipped count of the returned result.
SkippedCounted ==
  indexed.op = "process_events" =>
    MetricGrowth("events_skipped") = indexed.result.skipped

\* Calls that return no result leave the metrics alone; a new processor
\* has them at zero.
MetricsOnlyFromBatches ==
  /\ indexed.op \in {"reset_cursor", "remove_market", "clear"} =>
       processor.metrics = indexed.processor_before.metrics
  /\ indexed.op = "none" => processor.metrics = EventMetrics

\* C38: the indexer's event metrics equal the totals of the results it
\* returned: after any sequence of process_events calls, fills_processed,
\* outs_processed and events_skipped equal the sums of fills, outs and
\* skipped over all returned results (each call adds its result's counts
\* to metrics that start at zero), and events_processed equals
\* fills_processed + outs_processed.
C38_MetricsEqualResultTotals ==
  FillsAndOutsCounted /\ SkippedCounted /\ MetricsOnlyFromBatches

\* Everything in the claim but the skipped count.
MetricsButSkipped == FillsAndOutsCounted /\ MetricsOnlyFromBatches

\* events_skipped grows by twice the skipped count of the result.
SkippedCountedTwice ==
  indexed.op = "process_events" =>
    MetricGrowth("events_skipped") = 2 * indexed.result.skipped


\* The subscriptions in the set were sent since the connection was opened
\* and since it was last closed by close() or by the server.
SubscriptionsOnOpenConnection == ws_client.subscriptions \subseteq ws_socket.sent

\* Once close() has returned or the reader has seen the server's close,
\* the client is not connected.
ClosedIsNotConnected == ws_socket.over => ~ws_client.connected

\* C37: subscriptions() contains only subscriptions whose Subscribe
\* message was sent on the currently open connection: after close() has
\* returned, or after the server has closed the connection, the client is
\* not connected and the set is empty until a later subscribe call sends
\* its message, whatever subscribe calls run concurrently with the close.
C37_SubscriptionsOnOpenConnection ==
  SubscriptionsOnOpenConnection /\ ClosedIsNotConnected

\* A subscribe or unsubscribe call that fails leaves the set unchanged.
FailedCallKeepsSet ==
  \A t \in Callers :
    (/\ ws_callers'.calls = ws_callers.calls + 1
     /\ ws_callers.tasks[t].pc = "idle"
     /\ ws_callers'.tasks[t].pc = "idle"
     /\ ws_callers'.tasks[t].result \in {"NotConnected", "SendFailed"}
     /\ \A u \in Callers \ {t} : ws_callers'.tasks[u] = ws_callers.tasks[u])
      => ws_client'.subscriptions = ws_client.subscriptions

FailedCallsKeepSet == [][FailedCallKeepsSet]_vars


\* What the call returns for the response of its last attempt.
ResultFor(response) ==
  IF response = "200" THEN "Ok"
  ELSE IF response = "200_unparsable" THEN "Deserialization"
  ELSE IF response = "429" THEN "RateLimited"
  ELSE IF response = "404" THEN "NotFound"
  ELSE IF response = "401" THEN "Unauthorized"
  ELSE IF response \in {"500_api_error", "500"} THEN "Api"
  ELSE IF response = "timeout" THEN "Timeout"
  ELSE "Request"

Retried == {"429", "timeout"}

\* At most max_retries + 1 requests go out, one per response awaited or
\* received.
RequestsBounded ==
  /\ http_request.sent <= http_request.max_retries + 1
  /\ http_request.sent
       = Len(http_request.log) + (IF http_request.pc = "sending" THEN 1 ELSE 0)

\* Every response but the last was a 429 or a timeout; any other response
\* ends the call, and so does a 429 or a timeout with no retry left.
OnlyRetriedResponsesRepeat ==
  /\ \A k \in 1 .. Len(http_request.log) - 1 : http_request.log[k] \in Retried
  /\ (http_request.pc # "returned" /\ http_request.log # <<>>) =>
       /\ http_request.log[Len(http_request.log)] \in Retried
       /\ Len(http_request.log) <= http_request.max_retries
  /\ (/\ http_request.log # <<>>
      /\ \/ http_request.log[Len(http_request.log)] \notin Retried
         \/ Len(http_request.log) = http_request.max_retries + 1)
       => http_request.pc = "returned"

\* The call returns what its last attempt produced: RateLimited for a 429
\* with no retry left.
ReturnsLastAttempt ==
  http_request.pc = "returned" =>
    /\ http_request.log # <<>>
    /\ http_request.result
         = ResultFor(http_request.log[Len(http_request.log)])

\* C39: request_with_retry sends at most max_retries + 1 requests and
\* always returns: only HTTP 429 responses and timeouts are retried, every
\* other response or error is returned after the attempt that produced it,
\* and a 429 received when no retry is left yields RateLimited.
C39_RetriesBoundedAndReturns ==
  /\ [](RequestsBounded /\ OnlyRetriedResponsesRepeat /\ ReturnsLastAttempt)
  /\ (http_request.pc # "returned") ~> (http_request.pc = "returned")

\* A call allowed two retries that was retried after a timeout and after
\* a 429 and returned RateLimited for its third 429.
C39_Witness ==
  /\ http_request.pc = "returned"
  /\ http_request.max_retries = 2
  /\ http_request.sent = 3
  /\ http_request.log = <<"timeout", "429", "429">>
  /\ http_request.result = "RateLimited"

====
